---- MODULE Spec2Model ----
(***************************************************************************)
(* Model of the x402 payment metering engine of openclaw:                  *)
(*   - payment-flow.ts   : session ledger, payment requests, facilitator   *)
(*                         callback, cleanup sweep                         *)
(*   - hooks.ts          : message_received hook and /x402 commands        *)
(*   - test-telegram.ts  : direct on-chain verification of a tx hash       *)
(*   - approval-flow.ts  : AutoPaymentProcessor (delegated authorization)  *)
(*   - config.ts         : loadConfigFromEnv, resolveConfig                *)
(*                                                                         *)
(* The specifications share the variables:                                 *)
(*   Spec        the request/verify rail (hook, callback, cleanup, clock)  *)
(*   SpecMeter   isPaymentRequired applied to arbitrary sessions/policies  *)
(*   SpecDirect  the transaction-hash rail of the Telegram test bot        *)
(*   SpecAuth    the delegated-authorization rail                          *)
(*   SpecLedger  the ledger functions on arbitrary stores of sessions      *)
(*   SpecSweep   cleanupExpiredPayments on arbitrary request stores        *)
(*   SpecRequest sessions, requests and the callback through the API       *)
(*   SpecSettle  both settlement strategies on one session ledger          *)
(*   SpecConfig  resolveConfig on arbitrary environments and settings      *)
(*   SpecHook    the request/verify rail for every quota validateConfig    *)
(*               accepts, 0 included                                       *)
(*   SpecGates   the checks before the external calls, on arbitrary stores *)
(*   SpecLive    the request/verify rail with a fair clock and sweep       *)
(*   SpecRegistry registerAuthorization on arbitrary stores of records    *)
(*   SpecSteps   getApprovalSteps and checkApprovalNeeded on chain states  *)
(*   SpecQueue   queuePayment and concurrent processPendingPayments        *)
(***************************************************************************)
EXTENDS Integers, Sequences, FiniteSets, TLC

VARIABLES
    now,               \* Date.now(), in ms since the start of the run
    ticks,             \* number of clock advances so far (bounds the run)
    config,            \* the resolved X402PaymentConfig (enabled, freeMessagesPerSession)
    paymentSessions,   \* Map<string, PaymentSession>
    pendingPayments,   \* Map<string, PaymentRequest> of payment-flow.ts
    nextPaymentId,     \* ids handed out so far by generatePaymentId
    callbacks,         \* processPaymentCallback invocations, one per caller
    creditsById,       \* history: paidMessageCount increments per payment id
    paidBySig,         \* history: the payment ids credited on each signature
    decision,          \* last value returned by isPaymentRequired (SpecMeter)
    ret,               \* what the last synchronous API call returned
    settings,          \* the inputs of resolveConfig: process.env and the plugin config
    verifiedTxHashes,  \* Set<string> of test-telegram.ts
    verifiers,         \* verifyPaymentTransaction invocations, one per caller
    returnedValid,     \* history: references for which valid was returned
    userAuthorizations,\* Map<string, UserPaymentAuthorization>
    payers,            \* AutoPaymentProcessor.processPayment invocations
    chargedByKey,      \* history: the amounts charged with success on each pair
                       \* since its registration
    allowances,        \* what the chain holds for the payer: the token allowance to
                       \* Permit2 and the Permit2 allowance to the spender
    chargeQueue,       \* the pendingPayments array of approval-flow.ts
    queued,            \* history: number of requests queuePayment has received
    drains             \* processPendingPayments invocations, one per caller

vars == << now, ticks, config, paymentSessions, pendingPayments, nextPaymentId,
           callbacks, creditsById, paidBySig, decision, ret, settings, verifiedTxHashes,
           verifiers, returnedValid, userAuthorizations, payers, chargedByKey, allowances,
           chargeQueue, queued, drains >>

flowVars   == << pendingPayments, nextPaymentId, callbacks, creditsById, paidBySig >>
directVars == << verifiedTxHashes, verifiers, returnedValid >>
queueVars  == << chargeQueue, queued, drains >>
authVars   == << userAuthorizations, payers, chargedByKey, allowances, queueVars >>

----------------------------------------------------------------------------
(* Bounds of the model                                                     *)

MaxTicks == 2
MaxPayments == 2
MaxQuota == 2
MaxCount == 2
MaxMeterCount == 4
MaxMeterQuota == 4

(* Program constants                                                       *)

ExpiryMs == 30 * 60 * 1000
RetentionMs == 24 * 60 * 60 * 1000
DefaultFreeMessages == 3

SessionKeys == {"s1", "s2"}
\* the conversations that reach the hook in Spec
HookSessions == {"s1"}
Callers == {"c1", "c2"}
Signatures == {"sigA", "sigB"}
FacilitatorAnswers == {"ok", "not_ok", "throws"}
TickSteps == {1, ExpiryMs, RetentionMs}

\* DEFAULT_CONFIG of config.ts
DefaultPrice == "$0.01"
BaseSepolia == "eip155:84532"
BaseMainnet == "eip155:8453"
TestnetFacilitator == "https://x402.org/facilitator"
Merchant == "0xmerchant"

NoPayment == 0
NoTx == "undefined"
NoTime == -1
FacilitatorTx == "0xsettled"

\* no API call has returned since the last other step
\* (prev: what the call of the same operation just before it returned, -1 if
\* the step before was not such a call)
NoRet ==
    [ op |-> "none", key |-> "none", flag |-> FALSE, num |-> 0, paid |-> 0, unpaid |-> 0,
      prev |-> -1 ]

----------------------------------------------------------------------------
(* payment-flow.ts : Usage Ledger                                          *)

NewSession ==
    [ messageCount |-> 0, paidMessageCount |-> 0, pendingPaymentId |-> NoPayment,
      lastPaymentTxHash |-> NoTx, lastPaymentTimestamp |-> NoTime ]

getOrCreateSession_AlwaysFresh(store, sessionKey) ==
    [ k \in DOMAIN store \cup {sessionKey} |->
        IF k = sessionKey THEN NewSession ELSE store[k] ]

getOrCreateSession(store, sessionKey) ==
    IF sessionKey \in DOMAIN store THEN store ELSE store @@ (sessionKey :> NewSession)

freeMessagesOf_OneMore(cfg) ==
    IF cfg.freeMessagesPerSession = 0 THEN DefaultFreeMessages + 1
    ELSE cfg.freeMessagesPerSession + 1

\* config.freeMessagesPerSession || 3 : 0 is falsy and falls back to 3
freeMessagesOf(cfg) ==
    IF cfg.freeMessagesPerSession = 0 THEN DefaultFreeMessages ELSE cfg.freeMessagesPerSession

isPaymentRequired_IgnoresEnabled(session, cfg) ==
    session.messageCount - session.paidMessageCount >= freeMessagesOf(cfg)

isPaymentRequired(session, cfg) ==
    IF ~cfg.enabled THEN FALSE
    ELSE session.messageCount - session.paidMessageCount >= freeMessagesOf(cfg)

incrementMessageCount_CreatesMissing(store, sessionKey) ==
    IF sessionKey \in DOMAIN store
    THEN [store EXCEPT ![sessionKey].messageCount = @ + 1]
    ELSE store @@ (sessionKey :> [NewSession EXCEPT !.messageCount = 1])

incrementMessageCount(store, sessionKey) ==
    IF sessionKey \in DOMAIN store
    THEN [store EXCEPT ![sessionKey].messageCount = @ + 1]
    ELSE store

updateSessionPending(store, sessionKey, id) ==
    IF sessionKey \in DOMAIN store
    THEN [store EXCEPT ![sessionKey].pendingPaymentId = id]
    ELSE store

----------------------------------------------------------------------------
(* payment-flow.ts : Payment Request Lifecycle                             *)

createPaymentRequest_ExpiresInADay(sessionKey, cfg, id, t) ==
    [ id |-> id, sessionKey |-> sessionKey, amount |-> cfg.pricePerMessage,
      network |-> cfg.network, payTo |-> cfg.payTo, status |-> "pending",
      createdAt |-> t, expiresAt |-> t + RetentionMs, txHash |-> NoTx ]

createPaymentRequest(sessionKey, cfg, id, t) ==
    [ id |-> id, sessionKey |-> sessionKey, amount |-> cfg.pricePerMessage,
      network |-> cfg.network, payTo |-> cfg.payTo, status |-> "pending",
      createdAt |-> t, expiresAt |-> t + ExpiryMs, txHash |-> NoTx ]

\* pendingPayments.get(paymentId): the set holding the request, empty for undefined
getPendingPayment(store, paymentId) ==
    IF paymentId \in DOMAIN store THEN {store[paymentId]} ELSE {}

sweepMark_AtExpiry(payment, t) ==
    IF payment.status = "pending" /\ t >= payment.expiresAt
    THEN [payment EXCEPT !.status = "expired"]
    ELSE payment

\* one entry of the sweep: mark, then decide whether the entry is deleted
sweepMark(payment, t) ==
    IF payment.status = "pending" /\ t > payment.expiresAt
    THEN [payment EXCEPT !.status = "expired"]
    ELSE payment

sweepDeletes_OnOldStatus(payment, t) ==
    payment.status # "pending" /\ t - payment.createdAt > RetentionMs

sweepDeletes(payment, t) ==
    sweepMark(payment, t).status # "pending" /\ t - payment.createdAt > RetentionMs

cleanupExpiredPayments_MarksOnly(store, t) ==
    [ id \in DOMAIN store |-> sweepMark(store[id], t) ]

cleanupExpiredPayments(store, t) ==
    [ id \in { i \in DOMAIN store : ~sweepDeletes(store[i], t) } |-> sweepMark(store[id], t) ]

cleanupCount(store, t) ==
    Cardinality({ i \in DOMAIN store : store[i].status = "pending" /\ t > store[i].expiresAt })

----------------------------------------------------------------------------
(* x402-client.ts : verifyPayment, the facilitator round trip              *)

NoResult == [ success |-> FALSE, error |-> "none", txHash |-> NoTx ]

Failure(msg) == [ success |-> FALSE, error |-> msg, txHash |-> NoTx ]

\* answer "ok": response.ok, "not_ok": !response.ok, "throws": fetch rejected
verifyPayment(answer) ==
    CASE answer = "ok"     -> [ success |-> TRUE, error |-> "none", txHash |-> FacilitatorTx ]
      [] answer = "not_ok" -> Failure("facilitator rejected")
      [] OTHER             -> Failure("fetch failed")

----------------------------------------------------------------------------
(* payment-flow.ts : processPaymentCallback                                *)

IdleCallback ==
    [ pc |-> "idle", paymentId |-> NoPayment, signature |-> "none",
      sessionKey |-> "none", result |-> NoResult ]

\* `Payment already ${payment.status}`
alreadyMessage(status) ==
    CASE status = "paid"    -> "Payment already paid"
      [] status = "expired" -> "Payment already expired"
      [] OTHER              -> "Payment already failed"

callbackGate_ExpiryFirst(store, paymentId, t) ==
    IF paymentId \notin DOMAIN store THEN "Payment not found"
    ELSE IF t > store[paymentId].expiresAt THEN "Payment expired"
    ELSE IF store[paymentId].status # "pending" THEN alreadyMessage(store[paymentId].status)
    ELSE "verify"

\* the synchronous prefix, up to the await of verifyPayment: the rejection
\* it returns, or "verify" when the facilitator is to be called
callbackGate(store, paymentId, t) ==
    IF paymentId \notin DOMAIN store THEN "Payment not found"
    ELSE IF store[paymentId].status # "pending" THEN alreadyMessage(store[paymentId].status)
    ELSE IF t > store[paymentId].expiresAt THEN "Payment expired"
    ELSE "verify"

expireOnCallback_LeavesPending(store, paymentId, gate) == store

\* `payment.status = "expired"` of the expiry rejection, the only write of
\* the synchronous prefix
expireOnCallback(store, paymentId, gate) ==
    IF gate = "Payment expired"
    THEN [store EXCEPT ![paymentId].status = "expired"]
    ELSE store

\* the status written by the continuation after the await
settledStatus(result) == IF result.success THEN "paid" ELSE "failed"

creditSession_ByTwo(store, sessionKey, result, t) ==
    IF result.success /\ sessionKey \in DOMAIN store
    THEN [store EXCEPT ![sessionKey] =
            [@ EXCEPT !.paidMessageCount = @ + 2,
                      !.lastPaymentTxHash = result.txHash,
                      !.lastPaymentTimestamp = t,
                      !.pendingPaymentId = NoPayment]]
    ELSE store

\* the session update of the continuation
creditSession(store, sessionKey, result, t) ==
    IF result.success /\ sessionKey \in DOMAIN store
    THEN [store EXCEPT ![sessionKey] =
            [@ EXCEPT !.paidMessageCount = @ + 1,
                      !.lastPaymentTxHash = result.txHash,
                      !.lastPaymentTimestamp = t,
                      !.pendingPaymentId = NoPayment]]
    ELSE store

ProcessPaymentCallbackStart(c, paymentId, signature) ==
    /\ callbacks[c].pc = "idle"
    /\ LET gate == callbackGate(pendingPayments, paymentId, now) IN
       /\ pendingPayments' = expireOnCallback(pendingPayments, paymentId, gate)
       /\ callbacks' = [callbacks EXCEPT ![c] =
            IF gate = "verify"
            THEN [ pc |-> "verifying", paymentId |-> paymentId, signature |-> signature,
                   sessionKey |-> pendingPayments[paymentId].sessionKey, result |-> NoResult ]
            ELSE [ pc |-> "done", paymentId |-> paymentId, signature |-> "none",
                   sessionKey |-> "none", result |-> Failure(gate) ]]
    /\ UNCHANGED << now, ticks, config, paymentSessions, nextPaymentId, creditsById,
                    paidBySig, decision, settings, directVars, authVars >>
    /\ ret' = NoRet

\* the continuation after `await verifyPayment(...)`; `payment` is the object
\* read before the await, so a record purged meanwhile is no longer stored
ProcessPaymentCallbackResume(c, answer) ==
    /\ callbacks[c].pc = "verifying"
    /\ LET cb     == callbacks[c]
           result == verifyPayment(answer)
           credit == result.success /\ cb.sessionKey \in DOMAIN paymentSessions
       IN
       /\ pendingPayments' =
            IF cb.paymentId \in DOMAIN pendingPayments
            THEN [pendingPayments EXCEPT ![cb.paymentId] =
                    [@ EXCEPT !.status = settledStatus(result),
                              !.txHash = IF result.success THEN result.txHash ELSE @]]
            ELSE pendingPayments
       /\ paymentSessions' = creditSession(paymentSessions, cb.sessionKey, result, now)
       /\ creditsById' = IF credit THEN [creditsById EXCEPT ![cb.paymentId] = @ + 1]
                         ELSE creditsById
       /\ paidBySig' = IF credit THEN [paidBySig EXCEPT ![cb.signature] = @ \cup {cb.paymentId}]
                       ELSE paidBySig
       /\ callbacks' = [callbacks EXCEPT ![c] = [ pc |-> "done", paymentId |-> cb.paymentId, signature |-> "none",
              sessionKey |-> "none", result |-> result ]]
    /\ ret' = NoRet
    /\ UNCHANGED << now, ticks, config, nextPaymentId, decision, settings, directVars,
                    authVars >>

----------------------------------------------------------------------------
(* payment-flow.ts : generatePaymentStatusMessage; hooks.ts : the hook     *)

\* generatePaymentStatusMessage(session, config): issues a request exactly
\* when isPaymentRequired holds
GeneratePaymentStatusMessage(sessions, sessionKey) ==
    IF isPaymentRequired(sessions[sessionKey], config)
    THEN /\ nextPaymentId < MaxPayments
         /\ nextPaymentId' = nextPaymentId + 1
         /\ pendingPayments' = pendingPayments @@
              ((nextPaymentId + 1) :> createPaymentRequest(sessionKey, config, nextPaymentId + 1, now))
         /\ paymentSessions' = updateSessionPending(sessions, sessionKey, nextPaymentId + 1)
    ELSE /\ paymentSessions' = sessions
         /\ UNCHANGED << nextPaymentId, pendingPayments >>

hookBlocks_Always(session, cfg) == TRUE

\* the test the hook makes before it lets a message through
hookBlocks(session, cfg) == isPaymentRequired(session, cfg)

\* message_received for a message that is not an /x402 command
MessageReceived(sessionKey) ==
    /\ config.enabled
    /\ LET sessions == getOrCreateSession(paymentSessions, sessionKey) IN
       IF hookBlocks(sessions[sessionKey], config)
       THEN GeneratePaymentStatusMessage(sessions, sessionKey)
       ELSE /\ sessions[sessionKey].messageCount < MaxCount
            /\ paymentSessions' = incrementMessageCount(sessions, sessionKey)
            /\ UNCHANGED << nextPaymentId, pendingPayments >>
    \* what the hook returns: block and metadata.paymentId
    /\ LET block == hookBlocks(getOrCreateSession(paymentSessions, sessionKey)[sessionKey],
                               config)
       IN ret' = [NoRet EXCEPT !.op = "message_received", !.key = sessionKey,
                               !.flag = block,
                               !.num = IF block THEN nextPaymentId + 1 ELSE NoPayment]
    /\ UNCHANGED << now, ticks, config, callbacks, creditsById, paidBySig, decision,
                    settings, directVars, authVars >>

\* message_received for "/x402 pay"
X402PayCommand(sessionKey) ==
    /\ config.enabled
    /\ GeneratePaymentStatusMessage(getOrCreateSession(paymentSessions, sessionKey), sessionKey)
    /\ ret' = NoRet
    /\ UNCHANGED << now, ticks, config, callbacks, creditsById, paidBySig, decision,
                    settings, directVars, authVars >>

\* the setInterval sweep of index.ts and the `x402 cleanup` CLI command
CleanupExpiredPayments ==
    /\ pendingPayments' = cleanupExpiredPayments(pendingPayments, now)
    /\ ret' = NoRet
    /\ UNCHANGED << now, ticks, config, paymentSessions, nextPaymentId, callbacks,
                    creditsById, paidBySig, decision, settings, directVars, authVars >>

\* the wall clock advances
Tick(d) ==
    /\ ticks < MaxTicks
    /\ now' = now + d
    /\ ticks' = ticks + 1
    /\ ret' = NoRet
    /\ UNCHANGED << config, paymentSessions, flowVars, decision, settings, directVars, authVars >>

----------------------------------------------------------------------------
(* Initial values of the parts a specification does not use                *)

EmptyMap == [ k \in {} |-> {} ]

NoDecision == [ evaluated |-> FALSE, required |-> FALSE ]

NoSettings == [ env |-> << >>, plugin |-> << >> ]

ApiIdle ==
    /\ decision = NoDecision
    /\ ret = NoRet
    /\ settings = NoSettings

IdleVerifier ==
    [ pc |-> "idle", txHash |-> <<>>, sessionKey |-> "none", result |-> "none",
      afterValid |-> FALSE ]
Verifiers == {"v1", "v2"}

IdlePayer ==
    [ pc |-> "idle", key |-> "none", amount |-> 0, checkedBalance |-> 0,
      remainingBalance |-> 0, needsReauthorization |-> FALSE, onchain |-> "none",
      checkMessage |-> "none", result |-> "none", txHash |-> NoTx, overlaps |-> {} ]
Payers == {"p1", "p2"}
\* the (user, address) pairs, as getUserKey writes them
AuthKeys == {"u1:0xaa", "u2:0xbb"}

FlowIdle ==
    /\ pendingPayments = EmptyMap
    /\ nextPaymentId = 0
    /\ callbacks = [ c \in Callers |-> IdleCallback ]
    /\ creditsById = [ i \in 1..MaxPayments |-> 0 ]
    /\ paidBySig = [ g \in Signatures |-> {} ]

DirectIdle ==
    /\ verifiedTxHashes = {}
    /\ verifiers = [ v \in Verifiers |-> IdleVerifier ]
    /\ returnedValid = {}

\* the chain as it is when nobody has approved anything
NoAllowances == [ tokenAllowance |-> 0, amount |-> 0, expiration |-> 0 ]

IdleDrain == [ pc |-> "idle", entry |-> 0, results |-> << >> ]

QueueIdle ==
    /\ chargeQueue = << >>
    /\ queued = 0
    /\ drains = [ d \in Payers |-> IdleDrain ]

AuthIdle ==
    /\ QueueIdle
    /\ userAuthorizations = EmptyMap
    /\ payers = [ p \in Payers |-> IdlePayer ]
    /\ chargedByKey = [ k \in AuthKeys |-> 0 ]
    /\ allowances = NoAllowances

----------------------------------------------------------------------------
(* Spec : the request/verify rail                                          *)

Init ==
    /\ now = 0
    /\ ticks = 0
    /\ config \in [ enabled : {TRUE}, freeMessagesPerSession : 1..MaxQuota,
                    pricePerMessage : {DefaultPrice}, network : {BaseSepolia},
                    payTo : {Merchant} ]
    /\ paymentSessions = EmptyMap
    /\ ApiIdle
    /\ FlowIdle
    /\ DirectIdle
    /\ AuthIdle

Next ==
    \/ \E sk \in HookSessions : MessageReceived(sk)
    \/ \E sk \in HookSessions : X402PayCommand(sk)
    \/ \E c \in Callers, id \in 1..MaxPayments, g \in Signatures :
          ProcessPaymentCallbackStart(c, id, g)
    \/ \E c \in Callers, a \in FacilitatorAnswers : ProcessPaymentCallbackResume(c, a)
    \/ CleanupExpiredPayments
    \/ \E d \in TickSteps : Tick(d)

Spec == Init /\ [][Next]_vars

----------------------------------------------------------------------------
(* SpecMeter : isPaymentRequired on arbitrary sessions and policies        *)

IsPaymentRequiredCall(sessionKey) ==
    /\ sessionKey \in DOMAIN paymentSessions
    /\ decision' = [ evaluated |-> TRUE,
                     required  |-> isPaymentRequired(paymentSessions[sessionKey], config) ]
    /\ ret' = [NoRet EXCEPT !.op = "isPaymentRequired", !.key = sessionKey,
                            !.flag = isPaymentRequired(paymentSessions[sessionKey], config)]
    /\ UNCHANGED << now, ticks, config, paymentSessions, flowVars, settings,
                    directVars, authVars >>

InitMeter ==
    /\ now = 0
    /\ ticks = 0
    /\ config \in [ enabled : BOOLEAN, freeMessagesPerSession : 0..MaxMeterQuota ]
    /\ \E m \in 0..MaxMeterCount, p \in 0..MaxMeterCount :
          paymentSessions = ("s1" :> [NewSession EXCEPT !.messageCount = m,
                                                        !.paidMessageCount = p])
    /\ ApiIdle
    /\ FlowIdle
    /\ DirectIdle
    /\ AuthIdle

NextMeter == \E sk \in SessionKeys : IsPaymentRequiredCall(sk)

SpecMeter == InitMeter /\ [][NextMeter]_vars

unpaidOf(sessionKey) ==
    paymentSessions[sessionKey].messageCount - paymentSessions[sessionKey].paidMessageCount

\* C1: whenever the policy's enabled flag is false, isPaymentRequired has
\* returned false, whatever messageCount and paidMessageCount are.
C1_DisabledNeverRequired ==
    (decision.evaluated /\ ~config.enabled) => ~decision.required

C1_Witness ==
    /\ decision.evaluated
    /\ ~config.enabled
    /\ config.freeMessagesPerSession > 0
    /\ unpaidOf("s1") >= config.freeMessagesPerSession

\* C2: for an enabled policy with free quota q >= 0, isPaymentRequired
\* returns true if and only if messageCount - paidMessageCount >= q.
C2_RequiredIffUnpaidAtLeastQuota ==
    (decision.evaluated /\ config.enabled) =>
        (decision.required <=> unpaidOf("s1") >= config.freeMessagesPerSession)

----------------------------------------------------------------------------
(* Claims on the request/verify rail (Spec)                                *)

becomesPaid(id) ==
    /\ id \in DOMAIN pendingPayments'
    /\ pendingPayments[id].status # "paid"
    /\ pendingPayments'[id].status = "paid"

\* C4: no payment request transitions to status paid at a time later than
\* its expiresAt, also when the expiry passes during the facilitator call.
C4_NeverPaidAfterExpiry ==
    [][\A id \in DOMAIN pendingPayments :
          becomesPaid(id) => now <= pendingPayments[id].expiresAt]_vars

\* C6: for any single payment request, the owning session's paidMessageCount
\* is incremented at most once on account of that request.
C6_AtMostOneCreditPerRequest ==
    \A id \in 1..MaxPayments : creditsById[id] <= 1

\* C7: one settlement proof (signature) is credited against at most one
\* payment request.
C7_ProofConsumedAtMostOnce ==
    \A g \in Signatures : Cardinality(paidBySig[g]) <= 1

\* C8: once a request is in a terminal status (paid, expired, failed) its
\* status never changes again while it is stored.
C8_TerminalStatusIsFinal ==
    [][\A id \in DOMAIN pendingPayments :
          (pendingPayments[id].status # "pending" /\ id \in DOMAIN pendingPayments')
              => pendingPayments'[id].status = pendingPayments[id].status]_vars

pendingOf(sessionKey) ==
    { id \in DOMAIN pendingPayments :
        /\ pendingPayments[id].sessionKey = sessionKey
        /\ pendingPayments[id].status = "pending" }

\* C9: at every moment each session has at most one payment request in
\* status pending.
C9_AtMostOnePendingPerSession ==
    \A sk \in SessionKeys : Cardinality(pendingOf(sk)) <= 1

\* C10: for every session, paidMessageCount <= messageCount in every
\* reachable state.
C10_PaidAtMostMessageCount ==
    \A sk \in DOMAIN paymentSessions :
        paymentSessions[sk].paidMessageCount <= paymentSessions[sk].messageCount

----------------------------------------------------------------------------
(* test-telegram.ts : direct on-chain verification of a transaction hash   *)

\* strings are sequences of characters
lowerChar(ch) ==
    CASE ch = "A" -> "a"
      [] ch = "B" -> "b"
      [] ch = "C" -> "c"
      [] ch = "D" -> "d"
      [] ch = "X" -> "x"
      [] OTHER    -> ch

toLowerCase(str) == [ i \in DOMAIN str |-> lowerChar(str[i]) ]

startsWith0x(str) == Len(str) >= 2 /\ str[1] = "0" /\ str[2] = "x"

\* what the user may type after "/x402 paid "
UserHashes ==
    { <<"0", "x", "a", "b">>, <<"0", "x", "A", "B">>, <<"0", "X", "a", "B">>,
      <<"0", "x", "c", "d">>, <<"a", "b">> }

MinAmount == 10000
PaidGrant == 3

\* what getTransactionReceipt can produce for a hash
ReceiptOutcomes ==
    [ kind : {"throws", "null", "receipt"}, status : {"success", "reverted"},
      usdcTransfer : BOOLEAN, toPayTo : BOOLEAN, value : {MinAmount - 1, MinAmount} ]

verifiedHas_Never(set, txHash) == FALSE

\* verifiedTxHashes.has(txHash.toLowerCase())
verifiedHas(set, txHash) == toLowerCase(txHash) \in set

\* verifiedTxHashes.add(txHash.toLowerCase())
verifiedAdd(set, txHash) == set \cup {toLowerCase(txHash)}

consumeVerified_Always(set, txHash, verdict) == verifiedAdd(set, txHash)

\* the reference is recorded only on the path that returns valid
consumeVerified(set, txHash, verdict) ==
    IF verdict = "valid" THEN verifiedAdd(set, txHash) ELSE set

\* the checks of verifyPaymentTransaction on the looked-up receipt, in order
receiptVerdict(r) ==
    IF r.kind = "throws" THEN "Verification failed"
    ELSE IF r.kind = "null" THEN "Transaction not found"
    ELSE IF r.status # "success" THEN "Transaction failed"
    ELSE IF ~r.usdcTransfer THEN "No USDC transfer found in transaction"
    ELSE IF ~r.toPayTo THEN "Wrong recipient"
    ELSE IF r.value < MinAmount THEN "Insufficient amount"
    ELSE "valid"

sameReference(a, b) == toLowerCase(a) = toLowerCase(b)

\* handleMessage for "/x402 paid <hash>", up to the await of the receipt:
\* the command is lower-cased, the hash must start with 0x, and
\* verifyPaymentTransaction first consults the set of consumed references
PaidCommandStart(v, sessionKey, text) ==
    /\ verifiers[v].pc # "lookup"
    /\ LET txHash == toLowerCase(text) IN
       /\ startsWith0x(txHash)
       /\ paymentSessions' = getOrCreateSession(paymentSessions, sessionKey)
       /\ verifiers' = [verifiers EXCEPT ![v] =
            [ pc         |-> IF verifiedHas(verifiedTxHashes, txHash) THEN "done" ELSE "lookup",
              txHash     |-> txHash,
              sessionKey |-> sessionKey,
              result     |-> IF verifiedHas(verifiedTxHashes, txHash)
                             THEN "Transaction already used" ELSE "none",
              afterValid |-> \E h \in returnedValid : sameReference(h, txHash) ]]
    /\ ret' = NoRet
    /\ UNCHANGED << now, ticks, config, flowVars, decision, settings, verifiedTxHashes,
                    returnedValid, authVars >>

\* the continuation after the receipt arrives, and the caller's credit
PaidCommandFinish(v, receipt) ==
    /\ verifiers[v].pc = "lookup"
    /\ LET vr      == verifiers[v]
           verdict == receiptVerdict(receipt)
       IN
       /\ verifiedTxHashes' = consumeVerified(verifiedTxHashes, vr.txHash, verdict)
       /\ returnedValid' = IF verdict = "valid" THEN returnedValid \cup {vr.txHash}
                           ELSE returnedValid
       /\ paymentSessions' =
            IF verdict = "valid"
            THEN [paymentSessions EXCEPT ![vr.sessionKey].paidMessageCount = @ + PaidGrant]
            ELSE paymentSessions
       /\ verifiers' = [verifiers EXCEPT ![v] = [vr EXCEPT !.pc = "done", !.result = verdict]]
    /\ ret' = NoRet
    /\ UNCHANGED << now, ticks, config, flowVars, decision, settings, authVars >>

InitDirect ==
    /\ now = 0
    /\ ticks = 0
    /\ config = [ enabled |-> TRUE, freeMessagesPerSession |-> DefaultFreeMessages ]
    /\ paymentSessions = EmptyMap
    /\ ApiIdle
    /\ FlowIdle
    /\ DirectIdle
    /\ AuthIdle

NextDirect ==
    \/ \E v \in Verifiers, sk \in SessionKeys, text \in UserHashes : PaidCommandStart(v, sk, text)
    \/ \E v \in Verifiers, r \in ReceiptOutcomes : PaidCommandFinish(v, r)

SpecDirect == InitDirect /\ [][NextDirect]_vars

\* C3: once verifyPaymentTransaction has returned valid for a reference,
\* every later call with the same reference (compared case-insensitively)
\* returns 'Transaction already used' without any receipt lookup.
C3_ReplayRejectedBeforeLookup ==
    \A v \in Verifiers :
        verifiers[v].afterValid =>
            (verifiers[v].pc = "done" /\ verifiers[v].result = "Transaction already used")

C3_Witness ==
    \E v \in Verifiers :
        /\ verifiers[v].afterValid
        /\ verifiers[v].result = "Transaction already used"

----------------------------------------------------------------------------
(* permit2/approval-flow.ts : AutoPaymentProcessor                         *)

DefaultMaxPayment == 100000000
DefaultMinBalance == 1000000

CeilingChoices == {10}
ExpiresAtChoices == {1, 1000}
PayAmounts == {4, 6, 7}
MaxPaymentChoices == {6, DefaultMaxPayment}
AuthTickSteps == {1000}

\* the reply of Permit2Client.checkApprovalStatus (or a rejected read)
OnChainAnswers ==
    [ needsApproval : BOOLEAN, needsPermit2Allowance : BOOLEAN, throws : BOOLEAN ]

nowSeconds(t) == t \div 1000

localCheck_BalanceFirst(store, key, amount, t) ==
    IF key \notin DOMAIN store THEN "No payment authorization found"
    ELSE IF store[key].authorizedAmount - store[key].spentAmount < amount
         THEN "Insufficient authorized balance"
    ELSE IF store[key].expiresAt <= nowSeconds(t) THEN "Your payment authorization has expired"
    ELSE "query"

\* checkAuthorization, the checks made before the on-chain query, in order:
\* the denial message, or "query" when the on-chain allowance is to be read
localCheck(store, key, amount, t) ==
    IF key \notin DOMAIN store THEN "No payment authorization found"
    ELSE IF store[key].expiresAt <= nowSeconds(t) THEN "Your payment authorization has expired"
    ELSE IF store[key].authorizedAmount - store[key].spentAmount < amount
         THEN "Insufficient authorized balance"
    ELSE "query"

remainingOf(store, key) == store[key].authorizedAmount - store[key].spentAmount

registered_KeepsSpending(store, key, authorizedAmount, expiresAt) ==
    [ k \in DOMAIN store \cup {key} |->
        IF k = key
        THEN [ authorizedAmount |-> authorizedAmount,
               spentAmount |-> IF key \in DOMAIN store THEN store[key].spentAmount ELSE 0,
               expiresAt |-> expiresAt ]
        ELSE store[k] ]

\* `userAuthorizations.set(key, authorization)` with spentAmount: BigInt(0)
registered(store, key, authorizedAmount, expiresAt) ==
    [ k \in DOMAIN store \cup {key} |->
        IF k = key
        THEN [ authorizedAmount |-> authorizedAmount, spentAmount |-> 0,
               expiresAt |-> expiresAt ]
        ELSE store[k] ]

RegisterAuthorization(key, authorizedAmount, expiresAt) ==
    /\ userAuthorizations' = registered(userAuthorizations, key, authorizedAmount, expiresAt)
    /\ chargedByKey' = [chargedByKey EXCEPT ![key] = 0]
    /\ ret' = NoRet
    /\ UNCHANGED << now, ticks, config, paymentSessions, flowVars, decision, settings,
                    directVars, queueVars, allowances, payers >>

revokeReturn_AlwaysTrue(store, key) == TRUE

\* Map.delete(key) returns whether an entry was removed
revokeReturn(store, key) == key \in DOMAIN store

revokeStore(store, key) == [ k \in DOMAIN store \ {key} |-> store[k] ]

RevokeAuthorization(key) ==
    /\ userAuthorizations' = revokeStore(userAuthorizations, key)
    /\ ret' = [NoRet EXCEPT !.op = "revokeAuthorization", !.key = key,
                            !.flag = revokeReturn(userAuthorizations, key)]
    /\ UNCHANGED << now, ticks, config, paymentSessions, flowVars, decision, settings,
                    directVars, queueVars, allowances, payers, chargedByKey >>

\* the `txHash` of a simulated settlement
SimulatedTx == "0xsimulated"

exceedsMaximum_AtCeiling(amount, cfg) == amount >= cfg.maxPaymentAmount

\* `amount > (this.config.maxPaymentAmount ?? BigInt(0))`
exceedsMaximum(amount, cfg) == amount > cfg.maxPaymentAmount

lowBalance_Never(remaining, cfg) == FALSE

\* `remainingBalance < (this.config.minBalanceThreshold ?? BigInt(0))`
lowBalance(remaining, cfg) == remaining < cfg.minBalanceThreshold

paymentError_Generic(message) == "Payment not authorized"

\* `error: authCheck.message` of the failure processPayment returns
paymentError(message) == message

\* processPayment called by p, run up to its first await: the ceiling test,
\* then the part of checkAuthorization that precedes the on-chain query
startedPayment(p, key, amount) ==
    LET tooLarge == exceedsMaximum(amount, config)
        verdict  == IF tooLarge THEN "none"
                    ELSE localCheck(userAuthorizations, key, amount, now)
        inFlight == { o \in Payers \ {p} :
                        payers[o].pc \in {"onchain", "authorized"} /\ payers[o].key = key }
    IN
    [ pc |-> IF verdict = "query" THEN "onchain" ELSE "done",
      key |-> key,
      amount |-> amount,
      checkedBalance |-> IF verdict \in {"query", "Insufficient authorized balance"}
                         THEN remainingOf(userAuthorizations, key)
                         ELSE 0,
      remainingBalance |-> 0,
      needsReauthorization |-> verdict \notin {"query", "none"},
      onchain |-> "none",
      checkMessage |-> IF verdict = "query" THEN "none" ELSE verdict,
      result |-> IF tooLarge THEN "Amount exceeds maximum"
                 ELSE IF verdict = "query" THEN "none"
                 ELSE paymentError(verdict),
      txHash |-> NoTx,
      overlaps |-> inFlight ]

\* processPayment up to the await inside checkAuthorization
ProcessPaymentStart(p, key, amount) ==
    /\ payers[p].pc = "idle"
    /\ payers' = [payers EXCEPT ![p] = startedPayment(p, key, amount)]
    /\ ret' = NoRet
    /\ UNCHANGED << now, ticks, config, paymentSessions, flowVars, decision, settings,
                    directVars, queueVars, allowances, userAuthorizations, chargedByKey >>

\* checkAuthorization resumes with the on-chain status and returns
OnChainReply(p, answer) ==
    /\ payers[p].pc = "onchain"
    /\ payers' = [payers EXCEPT ![p] =
          IF answer.throws
          THEN [@ EXCEPT !.pc = "done", !.onchain = "throws", !.result = "rejected"]
          ELSE IF answer.needsApproval \/ answer.needsPermit2Allowance
          THEN [@ EXCEPT !.pc = "done", !.onchain = "denied",
                         !.needsReauthorization = TRUE,
                         !.checkMessage = "On-chain authorization expired",
                         !.result = paymentError("On-chain authorization expired")]
          ELSE [@ EXCEPT !.pc = "authorized", !.onchain = "ok",
                         !.checkMessage = "Authorization valid",
                         !.needsReauthorization =
                             lowBalance(payers[p].checkedBalance, config)]]
    /\ ret' = NoRet
    /\ UNCHANGED << now, ticks, config, paymentSessions, flowVars, decision, settings,
                    directVars, queueVars, allowances, userAuthorizations, chargedByKey >>

debitOutcome_AlwaysSuccess(found) == "success"

\* what processPayment returns after the second `userAuthorizations.get(key)`
debitOutcome(found) == IF found THEN "success" ELSE "Authorization not found"

debit_Twice(store, key, amount) ==
    [store EXCEPT ![key].spentAmount = @ + amount + amount]

\* `auth.spentAmount += amount; userAuthorizations.set(key, auth)`
debit(store, key, amount) == [store EXCEPT ![key].spentAmount = @ + amount]

\* processPayment resumes after `await this.checkAuthorization(...)`:
\* it reads the record again and debits it
ProcessPaymentDebit(p) ==
    /\ payers[p].pc = "authorized"
    /\ LET key == payers[p].key IN
       IF key \notin DOMAIN userAuthorizations
       THEN /\ payers' = [payers EXCEPT ![p] =
                  [@ EXCEPT !.pc = "done", !.result = debitOutcome(FALSE)]]
            /\ UNCHANGED << userAuthorizations, chargedByKey >>
       ELSE /\ userAuthorizations' = debit(userAuthorizations, key, payers[p].amount)
            /\ chargedByKey' = [chargedByKey EXCEPT ![key] = @ + payers[p].amount]
            /\ payers' = [payers EXCEPT ![p] =
                  [@ EXCEPT !.pc = "done", !.result = debitOutcome(TRUE),
                            !.txHash = SimulatedTx,
                            !.remainingBalance =
                                remainingOf(debit(userAuthorizations, key, payers[p].amount),
                                            key)]]
    /\ ret' = NoRet
    /\ UNCHANGED << now, ticks, config, paymentSessions, flowVars, decision, settings,
                    directVars, queueVars, allowances >>

InitAuth ==
    /\ now = 0
    /\ ticks = 0
    /\ config \in [ maxPaymentAmount : MaxPaymentChoices,
                    minBalanceThreshold : {DefaultMinBalance} ]
    /\ paymentSessions = EmptyMap
    /\ ApiIdle
    /\ FlowIdle
    /\ DirectIdle
    /\ AuthIdle

NextAuth ==
    \/ \E k \in AuthKeys, a \in CeilingChoices, e \in ExpiresAtChoices :
          RegisterAuthorization(k, a, e)
    \/ \E k \in AuthKeys : RevokeAuthorization(k)
    \/ \E p \in Payers, k \in AuthKeys, a \in PayAmounts : ProcessPaymentStart(p, k, a)
    \/ \E p \in Payers, r \in OnChainAnswers : OnChainReply(p, r)
    \/ \E p \in Payers : ProcessPaymentDebit(p)
    \/ \E d \in AuthTickSteps : Tick(d)

SpecAuth == InitAuth /\ [][NextAuth]_vars

\* two calls for the same authorization that each asked for 6 when they saw
\* a remaining balance of 10, overlapped in time, got a positive on-chain
\* answer and found the record when they came to debit it
concurrentCharges(p, q) ==
    /\ p # q
    /\ payers[p].pc = "done" /\ payers[q].pc = "done"
    /\ payers[p].key = payers[q].key
    /\ payers[p].amount = 6 /\ payers[q].amount = 6
    /\ payers[p].checkedBalance = 10 /\ payers[q].checkedBalance = 10
    /\ payers[p].onchain = "ok" /\ payers[q].onchain = "ok"
    /\ payers[p].result # "Authorization not found"
    /\ payers[q].result # "Authorization not found"
    /\ (p \in payers[q].overlaps \/ q \in payers[p].overlaps)

\* C5: two concurrent processPayment calls against the same authorization
\* with remaining balance 10, each requesting 6, end with exactly one
\* success and one insufficient-balance failure; both never succeed.
C5_ExactlyOneConcurrentChargeSucceeds ==
    \A p, q \in Payers :
        concurrentCharges(p, q) =>
            \/ payers[p].result = "success"
                 /\ payers[q].result = "Insufficient authorized balance"
            \/ payers[q].result = "success"
                 /\ payers[p].result = "Insufficient authorized balance"

\* C11: for every delegated authorization record, spentAmount is at most
\* authorizedAmount in every reachable state, over any interleaving of
\* registerAuthorization, processPayment and revokeAuthorization.
C11_SpentAtMostAuthorized ==
    \A k \in DOMAIN userAuthorizations :
        userAuthorizations[k].spentAmount <= userAuthorizations[k].authorizedAmount

\* C19: revokeAuthorization returns true exactly when a record existed for
\* the pair; after it returns no record exists for the pair, the other
\* records are as they were, and checkAuthorization for the pair reports
\* that no authorization was found, whatever the amount.
C19_RevokeReportsAndRemoves ==
    [][ret'.op = "revokeAuthorization" =>
          /\ ret'.flag <=> (ret'.key \in DOMAIN userAuthorizations)
          /\ ret'.key \notin DOMAIN userAuthorizations'
          /\ \A k \in DOMAIN userAuthorizations \ {ret'.key} :
                /\ k \in DOMAIN userAuthorizations'
                /\ userAuthorizations'[k] = userAuthorizations[k]
          /\ \A a \in PayAmounts :
                localCheck(userAuthorizations', ret'.key, a, now')
                    = "No payment authorization found"]_vars

\* a revocation has just returned true, and one has just returned false
C19_Witness ==
    /\ ret.op = "revokeAuthorization"
    /\ ret.flag
    /\ ret.key \notin DOMAIN userAuthorizations
    /\ \E p \in Payers : payers[p].key = ret.key /\ payers[p].result = "success"

----------------------------------------------------------------------------
(* SpecLedger : the ledger API of payment-flow.ts called on arbitrary      *)
(* stores of sessions                                                      *)

MaxLedgerCount == 4
MaxLedgerPaid == 1

\* a session that has sent m messages and was credited p settlements
LedgerSession(m, p) ==
    IF p = 0
    THEN [NewSession EXCEPT !.messageCount = m]
    ELSE [NewSession EXCEPT !.messageCount = m, !.paidMessageCount = p,
                            !.lastPaymentTxHash = FacilitatorTx,
                            !.lastPaymentTimestamp = 0]

LedgerSessions == { LedgerSession(m, p) : m \in 0..MaxLedgerCount, p \in 0..MaxLedgerPaid }

\* the value incrementMessageCount returns
incrementReturn(store, sessionKey) ==
    IF sessionKey \in DOMAIN store THEN store[sessionKey].messageCount + 1 ELSE 0

getSessionStats_ZeroedForUnknown(store, sessionKey) ==
    IF sessionKey \notin DOMAIN store
    THEN [ found |-> TRUE, totalMessages |-> 0, paidMessages |-> 0, unpaidMessages |-> 0 ]
    ELSE [ found |-> TRUE,
           totalMessages  |-> store[sessionKey].messageCount,
           paidMessages   |-> store[sessionKey].paidMessageCount,
           unpaidMessages |-> store[sessionKey].messageCount
                                - store[sessionKey].paidMessageCount ]

\* getSessionStats: found = FALSE stands for the null it returns
getSessionStats(store, sessionKey) ==
    IF sessionKey \notin DOMAIN store
    THEN [ found |-> FALSE, totalMessages |-> 0, paidMessages |-> 0, unpaidMessages |-> 0 ]
    ELSE [ found |-> TRUE,
           totalMessages  |-> store[sessionKey].messageCount,
           paidMessages   |-> store[sessionKey].paidMessageCount,
           unpaidMessages |-> store[sessionKey].messageCount
                                - store[sessionKey].paidMessageCount ]

GetOrCreateSessionCall(sessionKey) ==
    /\ paymentSessions' = getOrCreateSession(paymentSessions, sessionKey)
    /\ ret' = [NoRet EXCEPT !.op = "getOrCreateSession", !.key = sessionKey, !.flag = TRUE,
                            !.num = paymentSessions'[sessionKey].messageCount,
                            !.paid = paymentSessions'[sessionKey].paidMessageCount]
    /\ UNCHANGED << now, ticks, config, flowVars, decision, settings, directVars, authVars >>

IncrementMessageCountCall(sessionKey) ==
    /\ sessionKey \in DOMAIN paymentSessions
          => paymentSessions[sessionKey].messageCount < MaxLedgerCount
    /\ paymentSessions' = incrementMessageCount(paymentSessions, sessionKey)
    /\ ret' = [NoRet EXCEPT !.op = "incrementMessageCount", !.key = sessionKey,
                            !.num = incrementReturn(paymentSessions, sessionKey)]
    /\ UNCHANGED << now, ticks, config, flowVars, decision, settings, directVars, authVars >>

GetSessionStatsCall(sessionKey) ==
    /\ LET stats == getSessionStats(paymentSessions, sessionKey) IN
       ret' = [NoRet EXCEPT !.op = "getSessionStats", !.key = sessionKey,
                            !.flag = stats.found, !.num = stats.totalMessages,
                            !.paid = stats.paidMessages, !.unpaid = stats.unpaidMessages]
    /\ UNCHANGED << now, ticks, config, paymentSessions, flowVars, decision, settings,
                    directVars, authVars >>

InitLedger ==
    /\ now = 0
    /\ ticks = 0
    /\ config = [ enabled |-> TRUE, freeMessagesPerSession |-> DefaultFreeMessages ]
    /\ paymentSessions \in UNION { [K -> LedgerSessions] : K \in SUBSET SessionKeys }
    /\ ApiIdle
    /\ FlowIdle
    /\ DirectIdle
    /\ AuthIdle

NextLedger ==
    \/ \E sk \in SessionKeys : GetOrCreateSessionCall(sk)
    \/ \E sk \in SessionKeys : IncrementMessageCountCall(sk)
    \/ \E sk \in SessionKeys : GetSessionStatsCall(sk)

SpecLedger == InitLedger /\ [][NextLedger]_vars

\* C16: incrementMessageCount on an existing session raises that session's
\* messageCount by exactly 1, returns the new count, and changes no other
\* field and no other session; on an unknown key it returns 0, creates no
\* session and changes nothing.
C16_IncrementCountsOneOrNothing ==
    [][ret'.op = "incrementMessageCount" =>
          /\ DOMAIN paymentSessions' = DOMAIN paymentSessions
          /\ pendingPayments' = pendingPayments
          /\ \A sk \in DOMAIN paymentSessions :
                IF sk = ret'.key
                THEN /\ paymentSessions'[sk].messageCount
                            = paymentSessions[sk].messageCount + 1
                     /\ ret'.num = paymentSessions'[sk].messageCount
                     /\ paymentSessions'[sk].paidMessageCount
                            = paymentSessions[sk].paidMessageCount
                     /\ paymentSessions'[sk].pendingPaymentId
                            = paymentSessions[sk].pendingPaymentId
                     /\ paymentSessions'[sk].lastPaymentTxHash
                            = paymentSessions[sk].lastPaymentTxHash
                     /\ paymentSessions'[sk].lastPaymentTimestamp
                            = paymentSessions[sk].lastPaymentTimestamp
                ELSE paymentSessions'[sk] = paymentSessions[sk]
          /\ ret'.key \notin DOMAIN paymentSessions => ret'.num = 0]_vars

\* an increment of a stored session has returned 2 next to another session
C16_Witness ==
    /\ ret.op = "incrementMessageCount"
    /\ ret.key \in DOMAIN paymentSessions
    /\ ret.num = 2
    /\ paymentSessions[ret.key].messageCount = 2
    /\ DOMAIN paymentSessions = SessionKeys

\* C17: getOrCreateSession returns the stored record unchanged when the key
\* is known, otherwise it stores and returns a record with messageCount 0
\* and paidMessageCount 0; it never changes a session that is stored, so
\* calling it again with the same key changes nothing.
C17_GetOrCreateKeepsOrZeroes ==
    [][ret'.op = "getOrCreateSession" =>
          /\ DOMAIN paymentSessions' = DOMAIN paymentSessions \cup {ret'.key}
          /\ \A sk \in DOMAIN paymentSessions : paymentSessions'[sk] = paymentSessions[sk]
          /\ ret'.num = paymentSessions'[ret'.key].messageCount
          /\ ret'.paid = paymentSessions'[ret'.key].paidMessageCount
          /\ ret'.key \notin DOMAIN paymentSessions =>
                /\ ret'.num = 0 /\ ret'.paid = 0
                /\ paymentSessions'[ret'.key].pendingPaymentId = NoPayment]_vars

\* a call for a stored session with counts has returned those counts
C17_Witness ==
    /\ ret.op = "getOrCreateSession"
    /\ ret.num = 2
    /\ ret.paid = 1
    /\ paymentSessions[ret.key].messageCount = 2

\* C18: getSessionStats returns null for an unknown key; for a stored
\* session it returns total = messageCount, paid = paidMessageCount and
\* unpaid = their difference, so a session with one counted message and no
\* settlement yields total 1, paid 0, unpaid 1.
C18_StatsNullOrCounts ==
    ret.op = "getSessionStats" =>
        IF ret.key \notin DOMAIN paymentSessions
        THEN ~ret.flag
        ELSE /\ ret.flag
             /\ ret.num = paymentSessions[ret.key].messageCount
             /\ ret.paid = paymentSessions[ret.key].paidMessageCount
             /\ ret.unpaid = ret.num - ret.paid
             /\ (paymentSessions[ret.key].messageCount = 1
                   /\ paymentSessions[ret.key].paidMessageCount = 0)
                   => (ret.num = 1 /\ ret.paid = 0 /\ ret.unpaid = 1)

\* the statistics of a session with one counted message and no settlement
C18_Witness ==
    /\ ret.op = "getSessionStats"
    /\ ret.flag
    /\ ret.num = 1 /\ ret.paid = 0 /\ ret.unpaid = 1

----------------------------------------------------------------------------
(* SpecSweep : cleanupExpiredPayments called on arbitrary request stores   *)

SweepCreated == {0, 1}
SweepNows == {ExpiryMs, ExpiryMs + 1, RetentionMs, RetentionMs + 1, RetentionMs + 2}
RequestStatuses == {"pending", "paid", "failed", "expired"}

\* a request of session s1 created at time c that has reached status st
SweepRequest(id, c, st) ==
    [createPaymentRequest("s1", config, id, c) EXCEPT
        !.status = st, !.txHash = IF st = "paid" THEN FacilitatorTx ELSE NoTx]

\* the `x402 cleanup` command: the sweep and the count it reports
CleanupExpiredPaymentsCall ==
    /\ pendingPayments' = cleanupExpiredPayments(pendingPayments, now)
    /\ ret' = [NoRet EXCEPT !.op = "cleanupExpiredPayments",
                            !.num = cleanupCount(pendingPayments, now),
                            !.prev = IF ret.op = "cleanupExpiredPayments" THEN ret.num ELSE -1]
    /\ UNCHANGED << now, ticks, config, paymentSessions, nextPaymentId, callbacks,
                    creditsById, paidBySig, decision, settings, directVars, authVars >>

InitSweep ==
    /\ now \in SweepNows
    /\ ticks = 0
    /\ config = [ enabled |-> TRUE, freeMessagesPerSession |-> DefaultFreeMessages,
                  pricePerMessage |-> DefaultPrice, network |-> BaseSepolia,
                  payTo |-> Merchant ]
    /\ \E ids \in SUBSET (1..MaxPayments) :
         \E c \in [ids -> SweepCreated], st \in [ids -> RequestStatuses] :
            /\ pendingPayments = [ id \in ids |-> SweepRequest(id, c[id], st[id]) ]
            /\ paymentSessions =
                 ("s1" :> LedgerSession(DefaultFreeMessages,
                                        Cardinality({ id \in ids : st[id] = "paid" })))
    /\ nextPaymentId = MaxPayments
    /\ callbacks = [ c \in Callers |-> IdleCallback ]
    /\ creditsById = [ i \in 1..MaxPayments |-> 0 ]
    /\ paidBySig = [ g \in Signatures |-> {} ]
    /\ ApiIdle
    /\ DirectIdle
    /\ AuthIdle

NextSweep ==
    \/ CleanupExpiredPaymentsCall
    \/ \E d \in TickSteps : Tick(d)

SpecSweep == InitSweep /\ [][NextSweep]_vars

----------------------------------------------------------------------------
(* SpecRequest : sessions, payment requests and the facilitator callback   *)
(* driven through the exported functions, as payment-flow.test.ts does     *)

RequestCallers == {"c1"}
RequestSignatures == {"sigA"}
RequestPrices == {DefaultPrice, "$0.05"}
RequestNetworks == {BaseSepolia, BaseMainnet}

CreatePaymentRequestCall(sessionKey) ==
    /\ sessionKey \in DOMAIN paymentSessions
    /\ nextPaymentId < MaxPayments
    /\ nextPaymentId' = nextPaymentId + 1
    /\ pendingPayments' = pendingPayments @@
         ((nextPaymentId + 1) :> createPaymentRequest(sessionKey, config, nextPaymentId + 1, now))
    /\ paymentSessions' = updateSessionPending(paymentSessions, sessionKey, nextPaymentId + 1)
    /\ ret' = [NoRet EXCEPT !.op = "createPaymentRequest", !.key = sessionKey,
                            !.flag = TRUE, !.num = nextPaymentId + 1]
    /\ UNCHANGED << now, ticks, config, callbacks, creditsById, paidBySig, decision,
                    settings, directVars, authVars >>

InitRequest ==
    /\ now \in {0, ExpiryMs}
    /\ ticks = 0
    /\ config \in [ enabled : {TRUE}, freeMessagesPerSession : {DefaultFreeMessages},
                    pricePerMessage : RequestPrices, network : RequestNetworks,
                    payTo : {Merchant} ]
    /\ paymentSessions = EmptyMap
    /\ ApiIdle
    /\ FlowIdle
    /\ DirectIdle
    /\ AuthIdle

NextRequest ==
    \/ \E sk \in SessionKeys : GetOrCreateSessionCall(sk)
    \/ \E sk \in SessionKeys : IncrementMessageCountCall(sk)
    \/ \E sk \in SessionKeys : IsPaymentRequiredCall(sk)
    \/ \E sk \in SessionKeys : CreatePaymentRequestCall(sk)
    \/ \E c \in RequestCallers, id \in 1..MaxPayments, g \in RequestSignatures :
          ProcessPaymentCallbackStart(c, id, g)
    \/ \E c \in RequestCallers, a \in FacilitatorAnswers : ProcessPaymentCallbackResume(c, a)

SpecRequest == InitRequest /\ [][NextRequest]_vars

\* the facilitator has verified the settlement of a request of this session
settledOnce(sessionKey) ==
    \E c \in RequestCallers :
        /\ callbacks[c].pc = "done"
        /\ callbacks[c].result.success
        /\ callbacks[c].paymentId \in DOMAIN pendingPayments
        /\ pendingPayments[callbacks[c].paymentId].sessionKey = sessionKey

\* the parts of the quota-3 scenario up to the settlement: the decision
\* after three counted messages, the request that is issued, and the
\* effect of the one verified settlement
scenarioUpToSettlement ==
    /\ (/\ ret.op = "isPaymentRequired"
        /\ paymentSessions[ret.key].messageCount = 3
        /\ paymentSessions[ret.key].paidMessageCount = 0) => ret.flag
    /\ ret.op = "createPaymentRequest" => pendingPayments[ret.num].status = "pending"
    /\ \A c \in RequestCallers :
          (callbacks[c].pc = "done" /\ callbacks[c].result.success) =>
              LET payment == pendingPayments[callbacks[c].paymentId] IN
              /\ payment.status = "paid"
              /\ paymentSessions[payment.sessionKey].paidMessageCount = 1

\* the decision asked for a session with three counted messages after its
\* one verified settlement
decidedAfterSettlement ==
    /\ ret.op = "isPaymentRequired"
    /\ settledOnce(ret.key)
    /\ paymentSessions[ret.key].messageCount = 3
    /\ paymentSessions[ret.key].paidMessageCount = 1

\* C13 (as stated): with quota 3, after 3 incrementMessageCount calls
\* isPaymentRequired is true, createPaymentRequest yields a pending request,
\* after one successful facilitator verification paidMessageCount = 1 and
\* the request is paid, and isPaymentRequired still returns true.
C13_StillRequiredAfterSettlement ==
    /\ scenarioUpToSettlement
    /\ decidedAfterSettlement => ret.flag

\* C13 (amended): as above up to the settlement; after it isPaymentRequired
\* returns false for the session (unpaid = 3 - 1 = 2 < 3), and returns true
\* again once one more message has been counted.
C13_AdmittedAfterSettlement ==
    /\ scenarioUpToSettlement
    /\ decidedAfterSettlement => ~ret.flag
    /\ (/\ ret.op = "isPaymentRequired"
        /\ paymentSessions[ret.key].messageCount = 4
        /\ paymentSessions[ret.key].paidMessageCount = 1) => ret.flag

C13_Witness ==
    /\ decidedAfterSettlement
    /\ ~ret.flag
    /\ \E id \in DOMAIN pendingPayments :
          /\ pendingPayments[id].sessionKey = ret.key
          /\ pendingPayments[id].status = "paid"

\* C15: createPaymentRequest returns a request with status pending, the
\* session's key, the policy's price, network and receiving address,
\* createdAt equal to the time of the call and expiresAt 30 minutes later;
\* the request is retrievable by its id through getPendingPayment and the
\* session's pendingPaymentId equals the new id.
C15_RequestIssuedFromPolicy ==
    ret.op = "createPaymentRequest" =>
        /\ Cardinality(getPendingPayment(pendingPayments, ret.num)) = 1
        /\ \A payment \in getPendingPayment(pendingPayments, ret.num) :
              /\ payment.id = ret.num
              /\ payment.status = "pending"
              /\ payment.sessionKey = ret.key
              /\ payment.amount = config.pricePerMessage
              /\ payment.network = config.network
              /\ payment.payTo = config.payTo
              /\ payment.createdAt = now
              /\ payment.expiresAt = payment.createdAt + 1800000
        /\ paymentSessions[ret.key].pendingPaymentId = ret.num

\* a second request issued for a session of a mainnet policy
C15_Witness ==
    /\ ret.op = "createPaymentRequest"
    /\ ret.num = 2
    /\ config.network = BaseMainnet
    /\ pendingPayments[2].network = BaseMainnet
    /\ paymentSessions[ret.key].pendingPaymentId = 2

----------------------------------------------------------------------------
(* SpecSettle : both settlement strategies acting on one session ledger    *)

SettleVerifiers == {"v1"}
SettleHashes == { <<"0", "x", "a", "b">>, <<"0", "x", "A", "B">> }
\* receipts that differ in whether they are found and whom they pay
SettleReceipts ==
    { r \in ReceiptOutcomes :
        r.status = "success" /\ r.usdcTransfer /\ r.value = MinAmount }
\* one step of the clock carries it past the expiry window of a request
SettleTickSteps == {ExpiryMs + 1}

NextSettle ==
    \/ \E sk \in HookSessions : MessageReceived(sk)
    \/ \E c \in Callers, id \in 1..MaxPayments, g \in RequestSignatures :
          ProcessPaymentCallbackStart(c, id, g)
    \/ \E c \in Callers, a \in FacilitatorAnswers : ProcessPaymentCallbackResume(c, a)
    \/ \E v \in SettleVerifiers, sk \in HookSessions, text \in SettleHashes :
          PaidCommandStart(v, sk, text)
    \/ \E v \in SettleVerifiers, r \in SettleReceipts : PaidCommandFinish(v, r)
    \/ \E d \in SettleTickSteps : Tick(d)

SpecSettle == Init /\ [][NextSettle]_vars

\* this step is the facilitator callback settling a request of the session
facilitatorSettles(sessionKey) ==
    \E c \in Callers :
        /\ callbacks[c].pc = "verifying"
        /\ callbacks[c].sessionKey = sessionKey
        /\ callbacks'[c].pc = "done"
        /\ callbacks'[c].result.success

\* this step is the /x402 paid command crediting a verified transaction
directSettles(sessionKey) ==
    \E v \in Verifiers :
        /\ verifiers[v].pc = "lookup"
        /\ verifiers[v].sessionKey = sessionKey
        /\ verifiers'[v].pc = "done"
        /\ verifiers'[v].result = "valid"

paidDelta(sessionKey) ==
    paymentSessions'[sessionKey].paidMessageCount
        - paymentSessions[sessionKey].paidMessageCount

----------------------------------------------------------------------------
(* config.ts : loadConfigFromEnv and resolveConfig                         *)

\* JavaScript values, tagged with their type
Undefined == << "undefined" >>
Bool(b) == << "boolean", b >>
Num(n) == << "number", n >>
Str(str) == << "string", str >>

\* an object is a function from its own keys to values
DEFAULT_CONFIG ==
    [ k \in { "enabled", "network", "payTo", "pricePerMessage", "facilitatorUrl",
              "freeMessagesPerSession", "telegramPaymentBotUrl" } |->
        CASE k = "enabled"                -> Bool(FALSE)
          [] k = "network"                -> Str(BaseSepolia)
          [] k = "payTo"                  -> Str("")
          [] k = "pricePerMessage"        -> Str(DefaultPrice)
          [] k = "facilitatorUrl"         -> Str(TestnetFacilitator)
          [] k = "freeMessagesPerSession" -> Num(DefaultFreeMessages)
          [] OTHER                        -> Str("https://openclaw.ai/pay") ]

\* the fields of the claim and the variable that overrides each
PolicyFields ==
    { "enabled", "network", "payTo", "pricePerMessage", "facilitatorUrl",
      "freeMessagesPerSession" }

envVarOf(field) ==
    CASE field = "enabled"                -> "X402_ENABLED"
      [] field = "network"                -> "X402_NETWORK"
      [] field = "payTo"                  -> "X402_PAY_TO"
      [] field = "pricePerMessage"        -> "X402_PRICE_PER_MESSAGE"
      [] field = "facilitatorUrl"         -> "X402_FACILITATOR_URL"
      [] field = "freeMessagesPerSession" -> "X402_FREE_MESSAGES"
      [] field = "privateKey"             -> "X402_PRIVATE_KEY"
      [] OTHER                            -> "X402_TELEGRAM_PAYMENT_URL"

\* parseInt(text, 10) on the texts the environment is drawn from
parseInt(text) ==
    CASE text = "0" -> 0
      [] text = "5" -> 5
      [] OTHER      -> 12

\* process.env.NAME || undefined : unset and "" both give undefined
envOrUndefined(env, name) ==
    IF name \in DOMAIN env /\ env[name] # "" THEN Str(env[name]) ELSE Undefined

\* every key is present in the returned object, with undefined as the value
\* of a field whose variable is not set; enabled is always a boolean
loadConfigFromEnv(env) ==
    [ k \in PolicyFields \cup { "privateKey", "telegramPaymentBotUrl" } |->
        CASE k = "enabled" ->
                 Bool(envVarOf(k) \in DOMAIN env /\ env[envVarOf(k)] = "true")
          [] k = "freeMessagesPerSession" ->
                 IF envVarOf(k) \in DOMAIN env /\ env[envVarOf(k)] # ""
                 THEN Num(parseInt(env[envVarOf(k)])) ELSE Undefined
          [] OTHER -> envOrUndefined(env, envVarOf(k)) ]

\* { ...a, ...b } : every own property of b, undefined values included,
\* replaces the property of a
spread(a, b) ==
    [ k \in DOMAIN a \cup DOMAIN b |-> IF k \in DOMAIN b THEN b[k] ELSE a[k] ]

resolveConfig(pluginConfig, env) ==
    spread(spread(DEFAULT_CONFIG, pluginConfig), loadConfigFromEnv(env))

\* what process.env and the plugin configuration may hold
EnvChoices ==
    [ k \in PolicyFields |->
        CASE k = "enabled"                -> {"true", "false"}
          [] k = "network"                -> {BaseMainnet}
          [] k = "payTo"                  -> {"0xenv"}
          [] k = "pricePerMessage"        -> {"$0.05"}
          [] k = "facilitatorUrl"         -> {"https://env.example"}
          [] OTHER                        -> {"0", "5"} ]

PluginChoices ==
    [ k \in PolicyFields |->
        CASE k = "enabled"                -> {Bool(TRUE)}
          [] k = "network"                -> {Str("eip155:1")}
          [] k = "payTo"                  -> {Str("0xplugin")}
          [] k = "pricePerMessage"        -> {Str("$0.02")}
          [] k = "facilitatorUrl"         -> {Str("https://plugin.example")}
          [] OTHER                        -> {Num(7)} ]

Environments ==
    UNION { { e \in [F -> UNION { EnvChoices[k] : k \in F }] :
                \A k \in F : e[k] \in EnvChoices[k] } : F \in SUBSET PolicyFields }

PluginConfigs ==
    UNION { { c \in [F -> UNION { PluginChoices[k] : k \in F }] :
                \A k \in F : c[k] \in PluginChoices[k] } : F \in SUBSET PolicyFields }

\* process.env built from the choice made for each field's variable
envOf(e) ==
    [ name \in { envVarOf(k) : k \in DOMAIN e } |->
        e[CHOOSE k \in DOMAIN e : envVarOf(k) = name] ]

\* register(api) of the plugin: the policy is resolved once
ResolveConfigCall ==
    /\ ret.op = "none"
    /\ config' = resolveConfig(settings.plugin, settings.env)
    /\ ret' = [NoRet EXCEPT !.op = "resolveConfig", !.flag = TRUE]
    /\ UNCHANGED << now, ticks, paymentSessions, flowVars, decision, settings,
                    directVars, authVars >>

InitConfig ==
    /\ now = 0
    /\ ticks = 0
    /\ config = DEFAULT_CONFIG
    /\ paymentSessions = EmptyMap
    /\ decision = NoDecision
    /\ ret = NoRet
    /\ \E e \in Environments, c \in PluginConfigs :
          settings = [ env |-> envOf(e), plugin |-> c ]
    /\ FlowIdle
    /\ DirectIdle
    /\ AuthIdle

NextConfig == ResolveConfigCall

SpecConfig == InitConfig /\ [][NextConfig]_vars

\* the value the environment gives a field whose variable is set
envValue(field) ==
    CASE field = "enabled" -> Bool(settings.env[envVarOf(field)] = "true")
      [] field = "freeMessagesPerSession" -> Num(parseInt(settings.env[envVarOf(field)]))
      [] OTHER -> Str(settings.env[envVarOf(field)])

\* C20: resolveConfig yields, for every policy field, the environment value
\* when the environment sets the field, otherwise the plugin setting when
\* one is given, otherwise the default.
C20_EnvThenPluginThenDefault ==
    ret.op = "resolveConfig" =>
        \A f \in PolicyFields :
            config[f] = IF envVarOf(f) \in DOMAIN settings.env THEN envValue(f)
                        ELSE IF f \in DOMAIN settings.plugin THEN settings.plugin[f]
                        ELSE DEFAULT_CONFIG[f]

----------------------------------------------------------------------------
(* SpecHook : the request/verify rail under every quota the policy may     *)
(* carry, 0 included (validateConfig accepts it)                           *)

InitHook ==
    /\ now = 0
    /\ ticks = 0
    /\ config \in [ enabled : {TRUE}, freeMessagesPerSession : 0..MaxQuota,
                    pricePerMessage : {DefaultPrice}, network : {BaseSepolia},
                    payTo : {Merchant} ]
    /\ paymentSessions = EmptyMap
    /\ ApiIdle
    /\ FlowIdle
    /\ DirectIdle
    /\ AuthIdle

SpecHook == InitHook /\ [][Next]_vars

\* this step is the message_received hook handling a message of the session
hookStep(sessionKey) ==
    ret'.op = "message_received" /\ ret'.key = sessionKey

\* the counters the hook finds (a session it creates starts at 0)
countBefore(sessionKey) ==
    IF sessionKey \in DOMAIN paymentSessions
    THEN paymentSessions[sessionKey].messageCount ELSE 0

paidBefore(sessionKey) ==
    IF sessionKey \in DOMAIN paymentSessions
    THEN paymentSessions[sessionKey].paidMessageCount ELSE 0

\* C21: with metering enabled and free quota q, a message of a session
\* with no settlement is admitted and counted exactly when fewer than q
\* messages were counted before it, and is blocked otherwise; a blocked
\* message leaves messageCount as it was.
C21_FirstQuotaMessagesAdmitted ==
    [][\A sk \in SessionKeys :
          (hookStep(sk) /\ paidBefore(sk) = 0) =>
              IF countBefore(sk) < config.freeMessagesPerSession
              THEN /\ ~ret'.flag
                   /\ paymentSessions'[sk].messageCount = countBefore(sk) + 1
              ELSE /\ ret'.flag
                   /\ paymentSessions'[sk].messageCount = countBefore(sk)]_vars

\* the hook would block the next message of the session
blockedNow(sessionKey) ==
    isPaymentRequired(getOrCreateSession(paymentSessions, sessionKey)[sessionKey], config)

blockedNext(sessionKey) ==
    isPaymentRequired(getOrCreateSession(paymentSessions', sessionKey)[sessionKey], config)

\* C22: after a request of a blocked session is verified through the
\* facilitator callback, the session's next non-command message is
\* admitted: the credit leaves the session unblocked, no step other than an
\* admitted message of the session blocks it again, and the hook admits and
\* counts the message of an unblocked session.
C22_AdmittedAfterVerifiedCallback ==
    [][\A sk \in SessionKeys :
          /\ facilitatorSettles(sk) => ~blockedNext(sk)
          /\ (~blockedNow(sk) /\ ~hookStep(sk)) => ~blockedNext(sk)
          /\ (~blockedNow(sk) /\ hookStep(sk)) =>
                /\ ~ret'.flag
                /\ paymentSessions'[sk].messageCount = countBefore(sk) + 1]_vars

\* a session that was blocked and then credited has had a further message
\* admitted
C22_Witness ==
    /\ ret.op = "message_received"
    /\ ~ret.flag
    /\ paymentSessions[ret.key].paidMessageCount = 1
    /\ paymentSessions[ret.key].messageCount = config.freeMessagesPerSession + 1
    /\ \E id \in DOMAIN pendingPayments :
          pendingPayments[id].sessionKey = ret.key /\ pendingPayments[id].status = "paid"

\* C29: computing the block decision for a message changes neither the
\* session record nor the request store, and two evaluations on the same
\* session and policy give the same payment identifier.
C29_BlockDecisionIsPure ==
    [][\A sk \in SessionKeys :
          (hookStep(sk) /\ ret'.flag) =>
              /\ pendingPayments' = pendingPayments
              /\ sk \in DOMAIN paymentSessions => paymentSessions'[sk] = paymentSessions[sk]
              /\ (ret.op = "message_received" /\ ret.key = sk /\ ret.flag)
                    => ret'.num = ret.num]_vars

callbackReturns(c) == callbacks[c].pc # "done" /\ callbacks'[c].pc = "done"

\* this step is verifier v's verifyPaymentTransaction returning
verifierReturns(v) ==
    /\ verifiers'[v].pc = "done"
    /\ verifiers'[v] # verifiers[v] \/ verifiers[v].pc = "lookup"

\* C24: a processPaymentCallback that returns failure (unknown id, already
\* terminal, expired, negative facilitator answer, transport error) leaves
\* every Session record unchanged; a verifyPaymentTransaction that returns
\* invalid leaves the set of consumed references unchanged.
C24_FailureLeavesLedgerAndConsumedSet ==
    [][/\ \A c \in Callers :
            (callbackReturns(c) /\ ~callbacks'[c].result.success)
                => paymentSessions' = paymentSessions
       /\ \A v \in Verifiers :
            (verifierReturns(v) /\ verifiers'[v].result # "valid")
                => verifiedTxHashes' = verifiedTxHashes]_vars

\* a callback rejected by the facilitator and a verification of a transfer to
\* another recipient have returned while a session holds paid credit
C24_Witness ==
    /\ \E c \in Callers : callbacks[c].pc = "done"
                          /\ callbacks[c].result.error = "facilitator rejected"
    /\ \E v \in Verifiers : verifiers[v].pc = "done"
                            /\ verifiers[v].result = "Wrong recipient"
    /\ \E sk \in DOMAIN paymentSessions : paymentSessions[sk].paidMessageCount > 0

\* this step is caller c's processPaymentCallback running its synchronous prefix
callbackStarts(c) == callbacks[c].pc = "idle" /\ callbacks'[c].pc # "idle"

\* C26: a callback on a pending request whose expiry has passed returns the
\* failure 'Payment expired' and sets that request's status to expired; a
\* callback on an unknown id or a non-pending request returns failure and
\* changes no request.
C26_ExpiredMarkedOthersUntouched ==
    [][\A c \in Callers : callbackStarts(c) =>
        LET id == callbacks'[c].paymentId IN
        IF id \notin DOMAIN pendingPayments \/ pendingPayments[id].status # "pending"
        THEN /\ callbacks'[c].pc = "done"
             /\ ~callbacks'[c].result.success
             /\ pendingPayments' = pendingPayments
        ELSE now > pendingPayments[id].expiresAt =>
             /\ callbacks'[c].pc = "done"
             /\ callbacks'[c].result = Failure("Payment expired")
             /\ pendingPayments' = [pendingPayments EXCEPT ![id].status = "expired"]]_vars

\* one callback was rejected as expired and marked its request, another was
\* rejected on the request already expired
C26_Witness ==
    \E c, d \in Callers :
        /\ callbacks[c].pc = "done" /\ callbacks[c].result.error = "Payment expired"
        /\ callbacks[d].pc = "done" /\ callbacks[d].result.error = "Payment already expired"
        /\ callbacks[c].paymentId = callbacks[d].paymentId
        /\ pendingPayments[callbacks[c].paymentId].status = "expired"

\* the request is pending and its expiry has passed
overdue(payment, t) == payment.status = "pending" /\ t > payment.expiresAt

\* C27: one cleanup sweep marks every pending request with now > expiresAt
\* expired and returns exactly the number of requests it marked; it deletes
\* exactly the requests that are terminal after the marking and were created
\* more than 24 hours ago; it never deletes or modifies a pending request
\* whose expiry lies in the future; it never modifies a Session.
C27_SweepMarksCountsAndPurges ==
    [][ret'.op = "cleanupExpiredPayments" =>
        /\ ret'.num = Cardinality({ id \in DOMAIN pendingPayments :
                                      overdue(pendingPayments[id], now) })
        /\ DOMAIN pendingPayments' =
             { id \in DOMAIN pendingPayments :
                 ~ (/\ \/ pendingPayments[id].status # "pending"
                       \/ overdue(pendingPayments[id], now)
                    /\ now - pendingPayments[id].createdAt > RetentionMs) }
        /\ \A id \in DOMAIN pendingPayments' :
             pendingPayments'[id] =
                IF overdue(pendingPayments[id], now)
                THEN [pendingPayments[id] EXCEPT !.status = "expired"]
                ELSE pendingPayments[id]
        /\ \A id \in DOMAIN pendingPayments :
             (pendingPayments[id].status = "pending" /\ now <= pendingPayments[id].expiresAt)
                => id \in DOMAIN pendingPayments' /\ pendingPayments'[id] = pendingPayments[id]
        /\ paymentSessions' = paymentSessions]_vars

\* a sweep marked two overdue requests and purged the one older than 24 hours
C27_Witness ==
    /\ ret.op = "cleanupExpiredPayments"
    /\ ret.num = 2
    /\ Cardinality(DOMAIN pendingPayments) = 1
    /\ \A id \in DOMAIN pendingPayments :
          /\ pendingPayments[id].status = "expired"
          /\ now - pendingPayments[id].createdAt = RetentionMs

----------------------------------------------------------------------------
(* SpecGates : the checks that precede the external calls, on arbitrary    *)
(* request stores, authorization records and on-chain allowances           *)

GateNows == {0, 1000, ExpiryMs + 1}
GateTickSteps == {1000}
GateSpent == {0, 6, 10}
GateKey == "u1:0xaa"
\* minBalanceThreshold: a configured one, and the default of the constructor
GateThresholds == {5, DefaultMinBalance}

\* what the chain can hold for the payer's wallet
ChainStates == [ tokenAllowance : {0, 6}, amount : {0, 6}, expiration : {1, 1000} ]

\* Permit2Client.checkApprovalStatus on the two allowances read from the chain
checkApprovalStatus(chain, requiredAmount, t) ==
    [ needsApproval         |-> chain.tokenAllowance < requiredAmount,
      needsPermit2Allowance |-> ~ (/\ chain.amount >= requiredAmount
                                   /\ chain.expiration > nowSeconds(t)),
      throws                |-> FALSE ]

\* a read of the chain that is rejected
RejectedRead == [ needsApproval |-> FALSE, needsPermit2Allowance |-> FALSE, throws |-> TRUE ]

InitGates ==
    /\ now \in GateNows
    /\ ticks = 0
    /\ config \in [ enabled : {TRUE}, freeMessagesPerSession : {DefaultFreeMessages},
                    pricePerMessage : {DefaultPrice}, network : {BaseSepolia},
                    payTo : {Merchant}, maxPaymentAmount : {DefaultMaxPayment},
                    minBalanceThreshold : GateThresholds ]
    /\ \E ids \in SUBSET {1}, st \in RequestStatuses :
          /\ pendingPayments = [ id \in ids |-> SweepRequest(id, 0, st) ]
          /\ paymentSessions =
               ("s1" :> LedgerSession(DefaultFreeMessages,
                                      IF ids # {} /\ st = "paid" THEN 1 ELSE 0))
    /\ nextPaymentId = 1
    /\ callbacks = [ c \in Callers |-> IdleCallback ]
    /\ creditsById = [ i \in 1..MaxPayments |-> 0 ]
    /\ paidBySig = [ g \in Signatures |-> {} ]
    /\ ApiIdle
    /\ DirectIdle
    /\ \E keys \in SUBSET {GateKey}, spent \in GateSpent, e \in ExpiresAtChoices,
          a \in CeilingChoices :
          userAuthorizations =
              [ k \in keys |-> [ authorizedAmount |-> a, spentAmount |-> spent,
                                 expiresAt |-> e ] ]
    /\ payers = [ p \in Payers |-> IdlePayer ]
    /\ QueueIdle
    /\ chargedByKey = [ k \in AuthKeys |->
                          IF k \in DOMAIN userAuthorizations
                          THEN userAuthorizations[k].spentAmount ELSE 0 ]
    /\ allowances \in ChainStates

NextGates ==
    \/ \E c \in RequestCallers, id \in 1..2, g \in RequestSignatures :
          ProcessPaymentCallbackStart(c, id, g)
    \/ \E c \in RequestCallers, a \in FacilitatorAnswers : ProcessPaymentCallbackResume(c, a)
    \/ \E p \in Payers, a \in PayAmounts : ProcessPaymentStart(p, GateKey, a)
    \/ \E p \in Payers :
          OnChainReply(p, checkApprovalStatus(allowances, payers[p].amount, now))
    \/ \E p \in Payers : OnChainReply(p, RejectedRead)
    \/ \E p \in Payers : ProcessPaymentDebit(p)
    \/ \E d \in GateTickSteps : Tick(d)

SpecGates == InitGates /\ [][NextGates]_vars

\* this step is payer p's processPayment running up to its first await
payerStarts(p) == payers[p].pc = "idle" /\ payers'[p].pc # "idle"

\* this step is payer p's checkAuthorization receiving the on-chain status
payerReplied(p) ==
    payers[p].pc = "onchain" /\ payers'[p].pc # "onchain" /\ payers'[p].onchain # "throws"

\* C25: processPaymentCallback evaluates its rejections in the order
\* not-found, already-settled (status not pending), expired, and calls the
\* facilitator in none of those cases; checkAuthorization makes no on-chain
\* allowance query when the record is absent, expired, or its remaining
\* budget is below the requested amount.
C25_RejectionsPrecedeExternalCalls ==
    [][/\ \A c \in Callers : callbackStarts(c) =>
            LET id == callbacks'[c].paymentId
                error == callbacks'[c].result.error
                noCall == callbacks'[c].pc = "done"
            IN
            /\ id \notin DOMAIN pendingPayments => noCall /\ error = "Payment not found"
            /\ (id \in DOMAIN pendingPayments /\ pendingPayments[id].status # "pending")
                  => noCall /\ error = alreadyMessage(pendingPayments[id].status)
            /\ (/\ id \in DOMAIN pendingPayments
                /\ pendingPayments[id].status = "pending"
                /\ now > pendingPayments[id].expiresAt)
                  => noCall /\ error = "Payment expired"
       /\ \A p \in Payers : payerStarts(p) =>
            LET key == payers'[p].key IN
            (\/ key \notin DOMAIN userAuthorizations
             \/ userAuthorizations[key].expiresAt <= nowSeconds(now)
             \/ userAuthorizations[key].authorizedAmount
                   - userAuthorizations[key].spentAmount < payers'[p].amount)
                => payers'[p].pc = "done" /\ payers'[p].onchain = "none"]_vars

\* a callback on a paid request whose expiry has passed was rejected as
\* already paid, and a charge on an expired authorization was denied
\* without a query
C25_Witness ==
    /\ \E c \in Callers :
          /\ callbacks[c].pc = "done"
          /\ callbacks[c].result.error = "Payment already paid"
          /\ now > pendingPayments[callbacks[c].paymentId].expiresAt
    /\ \E p \in Payers :
          /\ payers[p].pc = "done"
          /\ payers[p].result = "Your payment authorization has expired"
          /\ payers[p].onchain = "none"

\* C30: checkAuthorization evaluates, in this order, (a) no record,
\* (b) now >= expiresAt, (c) authorizedAmount - spentAmount < requested
\* amount, (d) on-chain allowance missing, too small or expired, and reports
\* the first that applies; remainingBalance is 0 for (a) and (b) and the
\* authorizedAmount - spentAmount it computed at (c) for (c) and (d); a
\* record both expired and exhausted is reported as expired.
C30_CheckAuthorizationOrder ==
    [][\A p \in Payers :
        /\ (payerStarts(p) /\ payers'[p].amount <= config.maxPaymentAmount) =>
             LET key == payers'[p].key
                 amount == payers'[p].amount
                 denied(msg, balance) == /\ payers'[p].pc = "done"
                                         /\ payers'[p].result = msg
                                         /\ payers'[p].checkedBalance = balance
             IN
             IF key \notin DOMAIN userAuthorizations
             THEN denied("No payment authorization found", 0)
             ELSE LET auth == userAuthorizations[key]
                      remaining == auth.authorizedAmount - auth.spentAmount
                  IN
                  IF nowSeconds(now) >= auth.expiresAt
                  THEN denied("Your payment authorization has expired", 0)
                  ELSE IF remaining < amount
                  THEN denied("Insufficient authorized balance", remaining)
                  ELSE payers'[p].pc = "onchain" /\ payers'[p].checkedBalance = remaining
        /\ payerReplied(p) =>
             LET amount == payers[p].amount IN
             IF \/ allowances.tokenAllowance < amount
                \/ allowances.amount < amount
                \/ allowances.expiration <= nowSeconds(now)
             THEN /\ payers'[p].pc = "done"
                  /\ payers'[p].result = "On-chain authorization expired"
                  /\ payers'[p].checkedBalance = payers[p].checkedBalance
             ELSE /\ payers'[p].pc = "authorized"
                  /\ payers'[p].checkedBalance = payers[p].checkedBalance]_vars

\* a record that is both expired and exhausted was reported as expired with
\* balance 0
C30_Witness ==
    \E p \in Payers :
        /\ payers[p].pc = "done"
        /\ payers[p].result = "Your payment authorization has expired"
        /\ payers[p].checkedBalance = 0
        /\ payers[p].key \in DOMAIN userAuthorizations
        /\ userAuthorizations[payers[p].key].spentAmount
              = userAuthorizations[payers[p].key].authorizedAmount

----------------------------------------------------------------------------
(* SpecLive : the request/verify rail with time advancing and the          *)
(* setInterval sweep of index.ts recurring                                 *)

LiveTickSteps == {RetentionMs}

\* some stored request is not yet older than the retention window
someRequestYoung ==
    \E id \in DOMAIN pendingPayments : now - pendingPayments[id].createdAt <= RetentionMs

\* the wall clock advances; once every stored request is older than the
\* retention window more time changes nothing the sweep looks at, so the
\* clock is followed only MaxTicks steps without a younger request
ClockAdvances(d) ==
    /\ ticks < MaxTicks \/ someRequestYoung
    /\ now' = now + d
    /\ ticks' = IF ticks < MaxTicks THEN ticks + 1 ELSE ticks
    /\ ret' = NoRet
    /\ UNCHANGED << config, paymentSessions, flowVars, decision, settings, directVars, authVars >>

InitLive ==
    /\ now = 0
    /\ ticks = 0
    /\ config = [ enabled |-> TRUE, freeMessagesPerSession |-> 1,
                  pricePerMessage |-> DefaultPrice, network |-> BaseSepolia,
                  payTo |-> Merchant ]
    /\ paymentSessions = EmptyMap
    /\ ApiIdle
    /\ FlowIdle
    /\ DirectIdle
    /\ AuthIdle

NextLive ==
    \/ \E sk \in HookSessions : MessageReceived(sk)
    \/ \E c \in RequestCallers, id \in 1..MaxPayments, g \in RequestSignatures :
          ProcessPaymentCallbackStart(c, id, g)
    \/ \E c \in RequestCallers, a \in FacilitatorAnswers : ProcessPaymentCallbackResume(c, a)
    \/ CleanupExpiredPayments
    \/ \E d \in LiveTickSteps : ClockAdvances(d)

\* Date.now() keeps advancing and the interval timer keeps firing
SpecLive ==
    /\ InitLive
    /\ [][NextLive]_vars
    /\ WF_vars(\E d \in LiveTickSteps : ClockAdvances(d))
    /\ WF_vars(CleanupExpiredPayments)

stored(id) == id \in DOMAIN pendingPayments

storedPending(id) == stored(id) /\ pendingPayments[id].status = "pending"

\* C28: with time advancing and the cleanup sweep recurring fairly, every
\* payment request eventually leaves status pending and is eventually
\* removed from the request store; no request stays pending forever.
C28_EveryRequestLeavesPendingAndIsPurged ==
    \A id \in 1..MaxPayments :
        /\ storedPending(id) ~> ~storedPending(id)
        /\ stored(id) ~> ~stored(id)

\* the first request was issued, was settled by the callback, and is gone
C28_Witness ==
    /\ nextPaymentId >= 1
    /\ ~stored(1)
    /\ creditsById[1] = 1

----------------------------------------------------------------------------
(* Claims on the delegated-authorization rail and on pendingPaymentId      *)

\* the expiry of the record, in seconds, has been reached
expiryReached(auth, t) == nowSeconds(t) >= auth.expiresAt

\* C32: no processPayment reports success against, or increases the
\* spentAmount of, a record whose expiresAt has been reached, also when the
\* expiry is reached while the on-chain check of that processPayment is in
\* flight; the passing of time removes no record from storage.
C32_NoChargeOnExpiredRecord ==
    [][/\ \A p \in Payers :
            (payers[p].pc # "done" /\ payers'[p].pc = "done"
                /\ payers'[p].result = "success")
               => ~expiryReached(userAuthorizations[payers'[p].key], now)
       /\ \A k \in DOMAIN userAuthorizations :
            (/\ k \in DOMAIN userAuthorizations'
             /\ userAuthorizations'[k].spentAmount > userAuthorizations[k].spentAmount)
               => ~expiryReached(userAuthorizations[k], now)
       /\ now' # now => userAuthorizations' = userAuthorizations]_vars

\* C39: whenever a session's pendingPaymentId is set, it names a request
\* that is stored, belongs to that session and is in status pending.
C39_PendingIdNamesPendingRequest ==
    \A sk \in DOMAIN paymentSessions :
        LET id == paymentSessions[sk].pendingPaymentId IN
        id # NoPayment =>
            /\ id \in DOMAIN pendingPayments
            /\ pendingPayments[id].sessionKey = sk
            /\ pendingPayments[id].status = "pending"

\* C31: in every checkAuthorization result, authorized = false implies
\* needsReauthorization = true; when authorized = true, needsReauthorization
\* is true if and only if the remaining balance the check computed
\* (authorizedAmount - spentAmount) is below the low-balance threshold.
C31_ReauthorizationFlag ==
    [][\A p \in Payers :
        /\ (payerStarts(p) /\ payers'[p].checkMessage # "none")
              => payers'[p].needsReauthorization
        /\ payerReplied(p) =>
              IF payers'[p].pc = "authorized"
              THEN payers'[p].needsReauthorization
                      <=> (payers'[p].checkedBalance < config.minBalanceThreshold)
              ELSE payers'[p].needsReauthorization]_vars

\* with threshold 5, one check was authorized on balance 10 without the
\* flag and a later one on balance 4 with it
C31_Witness ==
    /\ config.minBalanceThreshold = 5
    /\ \E p, q \in Payers :
          /\ payers[p].onchain = "ok" /\ payers[p].checkedBalance = 10
          /\ ~payers[p].needsReauthorization
          /\ payers[q].onchain = "ok" /\ payers[q].checkedBalance = 4
          /\ payers[q].needsReauthorization

\* this step is payer p's processPayment resuming after checkAuthorization
payerSettles(p) == payers[p].pc = "authorized" /\ payers'[p].pc = "done"

\* C33: processPayment rejects an amount above the per-transaction ceiling
\* before any authorization check or on-chain query, returning failure and
\* leaving every authorization record unchanged; an amount equal to the
\* ceiling is not rejected by this rule.
C33_CeilingRejectsFirst ==
    [][\A p \in Payers : payerStarts(p) =>
        IF payers'[p].amount > config.maxPaymentAmount
        THEN /\ payers'[p].pc = "done"
             /\ payers'[p].result = "Amount exceeds maximum"
             /\ payers'[p].checkMessage = "none"
             /\ payers'[p].onchain = "none"
             /\ userAuthorizations' = userAuthorizations
        ELSE payers'[p].result # "Amount exceeds maximum"]_vars

\* with ceiling 6, a charge of 7 was rejected by the ceiling and a charge of
\* 6 went through
C33_Witness ==
    /\ config.maxPaymentAmount = 6
    /\ \E p, q \in Payers :
          /\ payers[p].amount = 7 /\ payers[p].result = "Amount exceeds maximum"
          /\ payers[q].amount = 6 /\ payers[q].result = "success"

\* C34: when checkAuthorization denies a charge, processPayment returns
\* failure carrying exactly that check's reason message and leaves the
\* spentAmount of the authorization and every other record unchanged.
C34_DenialPassedOnUnchanged ==
    [][\A p \in Payers :
        (/\ payerStarts(p) \/ payerReplied(p)
         /\ payers'[p].checkMessage \notin {"none", "Authorization valid"})
           => /\ payers'[p].pc = "done"
              /\ payers'[p].result = payers'[p].checkMessage
              /\ payers'[p].result # "success"
              /\ payers'[p].txHash = NoTx
              /\ userAuthorizations' = userAuthorizations]_vars

\* a charge was denied for insufficient balance on a record that had been
\* debited before, and the record still holds that debit only
C34_Witness ==
    \E p \in Payers :
        /\ payers[p].pc = "done"
        /\ payers[p].result = "Insufficient authorized balance"
        /\ payers[p].key \in DOMAIN userAuthorizations
        /\ userAuthorizations[payers[p].key].spentAmount = 6

\* C35: a successful processPayment increases the spentAmount of exactly
\* the charged record by exactly the requested amount, changes no other
\* record, and returns remainingBalance = authorizedAmount - spentAmount
\* after the debit together with a settlement reference; the sum of the
\* amounts of all successful charges against one registration equals its
\* spentAmount.
C35_SuccessDebitsExactly ==
    [][/\ \A p \in Payers :
            (payerSettles(p) /\ payers'[p].result = "success") =>
               LET key == payers[p].key IN
               /\ key \in DOMAIN userAuthorizations
               /\ DOMAIN userAuthorizations' = DOMAIN userAuthorizations
               /\ userAuthorizations'[key] =
                     [userAuthorizations[key] EXCEPT !.spentAmount = @ + payers[p].amount]
               /\ \A k \in DOMAIN userAuthorizations \ {key} :
                     userAuthorizations'[k] = userAuthorizations[k]
               /\ payers'[p].remainingBalance =
                     userAuthorizations'[key].authorizedAmount
                        - userAuthorizations'[key].spentAmount
               /\ payers'[p].txHash # NoTx
       /\ \A k \in DOMAIN userAuthorizations' :
            userAuthorizations'[k].spentAmount = chargedByKey'[k]]_vars

\* two charges of 4 and 6 succeeded on one registration of 10
C35_Witness ==
    \E p, q \in Payers :
        /\ payers[p].result = "success" /\ payers[p].amount = 4
        /\ payers[q].result = "success" /\ payers[q].amount = 6
        /\ payers[p].key = payers[q].key
        /\ payers[p].key \in DOMAIN userAuthorizations
        /\ userAuthorizations[payers[p].key].spentAmount = 10
        /\ payers[q].remainingBalance = 0

\* C40: a processPayment whose record is removed by revokeAuthorization
\* while its on-chain check is in flight does not report success and debits
\* nothing; no charge succeeds for a pair that has no record, which after a
\* revoke is the case until a new registerAuthorization.
C40_NoSuccessWithoutRecord ==
    [][\A p \in Payers :
        /\ (payerSettles(p) /\ payers[p].key \notin DOMAIN userAuthorizations)
              => /\ payers'[p].result # "success"
                 /\ userAuthorizations' = userAuthorizations
        /\ (payers[p].result # "success" /\ payers'[p].result = "success")
              => /\ payers'[p].key \in DOMAIN userAuthorizations
                 /\ payers'[p].key \in DOMAIN userAuthorizations']_vars

\* a charge passed the on-chain check and then found its record revoked
C40_Witness ==
    \E p \in Payers :
        /\ payers[p].pc = "done"
        /\ payers[p].onchain = "ok"
        /\ payers[p].result = "Authorization not found"
        /\ payers[p].key \notin DOMAIN userAuthorizations

----------------------------------------------------------------------------
(* SpecRegistry : registerAuthorization and revokeAuthorization on         *)
(* arbitrary stores of authorization records                               *)

RegistrySpent == {0, 6}
RegistryCeilings == {0, 10, 20}
RegistryExpiries == {0, 1, 1000}

RegistryRecords ==
    [ authorizedAmount : CeilingChoices, spentAmount : RegistrySpent,
      expiresAt : ExpiresAtChoices ]

\* registerAuthorization called through the API: the promise it returns
\* (flag: fulfilled) and the arguments it was given
RegisterAuthorizationCall(key, authorizedAmount, expiresAt) ==
    /\ userAuthorizations' = registered(userAuthorizations, key, authorizedAmount, expiresAt)
    /\ chargedByKey' = [chargedByKey EXCEPT ![key] = 0]
    /\ ret' = [NoRet EXCEPT !.op = "registerAuthorization", !.key = key, !.flag = TRUE,
                            !.num = authorizedAmount, !.prev = expiresAt]
    /\ UNCHANGED << now, ticks, config, paymentSessions, flowVars, decision, settings,
                    directVars, queueVars, allowances, payers >>

InitRegistry ==
    /\ now = 0
    /\ ticks = 0
    /\ config = [ maxPaymentAmount |-> DefaultMaxPayment,
                  minBalanceThreshold |-> DefaultMinBalance ]
    /\ paymentSessions = EmptyMap
    /\ ApiIdle
    /\ FlowIdle
    /\ DirectIdle
    /\ userAuthorizations \in UNION { [K -> RegistryRecords] : K \in SUBSET AuthKeys }
    /\ payers = [ p \in Payers |-> IdlePayer ]
    /\ QueueIdle
    /\ chargedByKey = [ k \in AuthKeys |->
                          IF k \in DOMAIN userAuthorizations
                          THEN userAuthorizations[k].spentAmount ELSE 0 ]
    /\ allowances = NoAllowances

NextRegistry ==
    \/ \E k \in AuthKeys, a \in RegistryCeilings, e \in RegistryExpiries :
          RegisterAuthorizationCall(k, a, e)
    \/ \E k \in AuthKeys : RevokeAuthorization(k)

SpecRegistry == InitRegistry /\ [][NextRegistry]_vars

\* C36: registerAuthorization always succeeds and installs or replaces the
\* record of the (user, address) pair with the given ceiling and expiry and
\* spentAmount = 0, discarding any spending recorded before; the records of
\* the other pairs are unchanged.
C36_RegisterInstallsFreshRecord ==
    [][ret'.op = "registerAuthorization" =>
          /\ ret'.flag
          /\ DOMAIN userAuthorizations' = DOMAIN userAuthorizations \cup {ret'.key}
          /\ userAuthorizations'[ret'.key] =
                [ authorizedAmount |-> ret'.num, spentAmount |-> 0, expiresAt |-> ret'.prev ]
          /\ \A k \in DOMAIN userAuthorizations \ {ret'.key} :
                userAuthorizations'[k] = userAuthorizations[k]]_vars

\* a registration has just replaced a record that carried spending, next to
\* the record of another pair that still carries its own
C36_Witness ==
    /\ ret.op = "registerAuthorization"
    /\ chargedByKey[ret.key] = 0
    /\ userAuthorizations[ret.key].spentAmount = 0
    /\ userAuthorizations[ret.key].authorizedAmount = 20
    /\ \E k \in DOMAIN userAuthorizations \ {ret.key} :
          userAuthorizations[k].spentAmount = 6

----------------------------------------------------------------------------
(* SpecSteps : Permit2ApprovalFlow.getApprovalSteps and                    *)
(* checkApprovalNeeded on arbitrary on-chain allowances                    *)

getApprovalSteps_SignatureForAllowanceOnly(status) ==
    (IF status.needsApproval THEN << "token_approval" >> ELSE << >>)
        \o (IF status.needsPermit2Allowance THEN << "permit2_signature" >> ELSE << >>)

\* the list built by getApprovalSteps from the approval status
getApprovalSteps(status) ==
    (IF status.needsApproval THEN << "token_approval" >> ELSE << >>)
        \o (IF status.needsApproval \/ status.needsPermit2Allowance
            THEN << "permit2_signature" >> ELSE << >>)

\* the two flags of the result of checkApprovalNeeded
checkApprovalNeeded(status) ==
    IF status.needsApproval
    THEN [ needsTokenApproval |-> TRUE, needsPermit2Approval |-> TRUE ]
    ELSE IF status.needsPermit2Allowance
    THEN [ needsTokenApproval |-> FALSE, needsPermit2Approval |-> TRUE ]
    ELSE [ needsTokenApproval |-> FALSE, needsPermit2Approval |-> FALSE ]

NothingNeeded == [ needsTokenApproval |-> FALSE, needsPermit2Approval |-> FALSE ]

ApprovalOps == {"getApprovalSteps", "checkApprovalNeeded"}

\* the latest answers of the two functions for one required amount, read
\* from the same state of the chain
ApprovalAnswers(op, amount, hasSteps, steps, hasNeeded, needed) ==
    [ op |-> op, key |-> "none", flag |-> FALSE, num |-> amount, paid |-> 0, unpaid |-> 0,
      prev |-> -1, hasSteps |-> hasSteps, steps |-> steps,
      hasNeeded |-> hasNeeded, needed |-> needed ]

\* the other function answered for the same amount and nothing happened since
sameQuestion(amount) == ret.op \in ApprovalOps /\ ret.num = amount

GetApprovalStepsCall(requiredAmount) ==
    /\ LET status == checkApprovalStatus(allowances, requiredAmount, now) IN
       ret' = ApprovalAnswers("getApprovalSteps", requiredAmount,
                              TRUE, getApprovalSteps(status),
                              sameQuestion(requiredAmount) /\ ret.hasNeeded,
                              IF sameQuestion(requiredAmount) THEN ret.needed
                              ELSE NothingNeeded)
    /\ UNCHANGED << now, ticks, config, paymentSessions, flowVars, decision, settings,
                    directVars, authVars >>

CheckApprovalNeededCall(requiredAmount) ==
    /\ LET status == checkApprovalStatus(allowances, requiredAmount, now) IN
       ret' = ApprovalAnswers("checkApprovalNeeded", requiredAmount,
                              sameQuestion(requiredAmount) /\ ret.hasSteps,
                              IF sameQuestion(requiredAmount) THEN ret.steps ELSE << >>,
                              TRUE, checkApprovalNeeded(status))
    /\ UNCHANGED << now, ticks, config, paymentSessions, flowVars, decision, settings,
                    directVars, authVars >>

InitSteps ==
    /\ now \in GateNows
    /\ ticks = 0
    /\ config = [ enabled |-> FALSE, freeMessagesPerSession |-> DefaultFreeMessages ]
    /\ paymentSessions = EmptyMap
    /\ ApiIdle
    /\ FlowIdle
    /\ DirectIdle
    /\ userAuthorizations = EmptyMap
    /\ payers = [ p \in Payers |-> IdlePayer ]
    /\ QueueIdle
    /\ chargedByKey = [ k \in AuthKeys |-> 0 ]
    /\ allowances \in ChainStates

NextSteps ==
    \/ \E a \in PayAmounts : GetApprovalStepsCall(a)
    \/ \E a \in PayAmounts : CheckApprovalNeededCall(a)
    \/ \E d \in GateTickSteps : Tick(d)

SpecSteps == InitSteps /\ [][NextSteps]_vars

\* the elements of a list
listed(steps) == { steps[i] : i \in DOMAIN steps }

\* C38: getApprovalSteps returns [token_approval, permit2_signature] when
\* the token is not approved to the delegation contract, [permit2_signature]
\* alone when the token is approved but the spending allowance is missing,
\* too small or expired, and an empty list when both are satisfied; the
\* steps agree with checkApprovalNeeded (needsTokenApproval iff a
\* token_approval step is listed, needsPermit2Approval iff a
\* permit2_signature step is listed).
C38_ApprovalStepsInOrder ==
    [][ret'.op \in ApprovalOps =>
        LET amount == ret'.num
            tokenApproved == allowances.tokenAllowance >= amount
            allowanceCovers == /\ allowances.amount >= amount
                               /\ allowances.expiration > nowSeconds(now)
        IN
        /\ ret'.hasSteps =>
              ret'.steps = IF ~tokenApproved THEN << "token_approval", "permit2_signature" >>
                           ELSE IF ~allowanceCovers THEN << "permit2_signature" >>
                           ELSE << >>
        /\ (ret'.hasSteps /\ ret'.hasNeeded) =>
              /\ ret'.needed.needsTokenApproval <=> "token_approval" \in listed(ret'.steps)
              /\ ret'.needed.needsPermit2Approval
                    <=> "permit2_signature" \in listed(ret'.steps)]_vars

\* both functions answered for a wallet whose token is not approved while
\* its spending allowance would cover the amount
C38_Witness ==
    /\ ret.op \in ApprovalOps
    /\ ret.hasSteps /\ ret.hasNeeded
    /\ ret.steps = << "token_approval", "permit2_signature" >>
    /\ allowances.tokenAllowance < ret.num
    /\ allowances.amount >= ret.num
    /\ allowances.expiration > nowSeconds(now)

----------------------------------------------------------------------------
(* SpecQueue : queuePayment and processPendingPayments                     *)

MaxQueue == 2
QueueAmounts == {6}

\* queuePayment(request): pendingPayments.push(request); seq is the arrival
\* number of the request
QueuePayment(key, amount) ==
    /\ queued < MaxQueue
    /\ chargeQueue' = Append(chargeQueue, [ seq |-> queued + 1, key |-> key, amount |-> amount ])
    /\ queued' = queued + 1
    /\ ret' = NoRet
    /\ UNCHANGED << now, ticks, config, paymentSessions, flowVars, decision, settings,
                    directVars, userAuthorizations, payers, chargedByKey, allowances, drains >>

\* one turn of `while (pendingPayments.length > 0)` for drain d: either the
\* loop ends and the results are returned, or the head is shifted and
\* processPayment runs on it up to its first await
drainTurn(d, results) ==
    IF chargeQueue = << >>
    THEN /\ drains' = [drains EXCEPT ![d] =
                [ pc |-> "returned", entry |-> 0, results |-> results ]]
         /\ UNCHANGED << chargeQueue, payers >>
    ELSE /\ chargeQueue' = Tail(chargeQueue)
         /\ payers' = [payers EXCEPT ![d] =
                startedPayment(d, Head(chargeQueue).key, Head(chargeQueue).amount)]
         /\ drains' = [drains EXCEPT ![d] =
                [ pc |-> "awaiting", entry |-> Head(chargeQueue).seq, results |-> results ]]

\* processPendingPayments is called
DrainStart(d) ==
    /\ drains[d].pc = "idle"
    /\ payers[d].pc = "idle"
    /\ drainTurn(d, << >>)
    /\ ret' = NoRet
    /\ UNCHANGED << now, ticks, config, paymentSessions, flowVars, decision, settings,
                    directVars, userAuthorizations, chargedByKey, allowances, queued >>

\* `await this.processPayment(request)` settles: its result is pushed and the
\* loop goes round, or its rejection rejects processPendingPayments
DrainResume(d) ==
    /\ drains[d].pc = "awaiting"
    /\ payers[d].pc = "done"
    /\ IF payers[d].result = "rejected"
       THEN /\ drains' = [drains EXCEPT ![d] =
                   [ pc |-> "rejected", entry |-> 0, results |-> << >> ]]
            /\ UNCHANGED << chargeQueue, payers >>
       ELSE drainTurn(d, Append(drains[d].results,
                                [ seq |-> drains[d].entry, result |-> payers[d].result ]))
    /\ ret' = NoRet
    /\ UNCHANGED << now, ticks, config, paymentSessions, flowVars, decision, settings,
                    directVars, userAuthorizations, chargedByKey, allowances, queued >>

InitQueue ==
    /\ now = 0
    /\ ticks = 0
    /\ config = [ maxPaymentAmount |-> DefaultMaxPayment,
                  minBalanceThreshold |-> DefaultMinBalance ]
    /\ paymentSessions = EmptyMap
    /\ ApiIdle
    /\ FlowIdle
    /\ DirectIdle
    /\ userAuthorizations = registered(EmptyMap, GateKey, 10, 1000)
    /\ payers = [ p \in Payers |-> IdlePayer ]
    /\ QueueIdle
    /\ chargedByKey = [ k \in AuthKeys |-> 0 ]
    /\ allowances = NoAllowances

NextQueue ==
    \/ \E a \in QueueAmounts : QueuePayment(GateKey, a)
    \/ \E d \in Payers : DrainStart(d)
    \/ \E d \in Payers : DrainResume(d)
    \/ \E p \in Payers, r \in OnChainAnswers : OnChainReply(p, r)
    \/ \E p \in Payers : ProcessPaymentDebit(p)

SpecQueue == InitQueue /\ [][NextQueue]_vars

\* the arrival numbers a drain holds: in its results and in flight
heldBy(d) ==
    { drains[d].results[i].seq : i \in DOMAIN drains[d].results }
        \cup (IF drains[d].pc = "awaiting" THEN {drains[d].entry} ELSE {})

\* C37: processPendingPayments processes the queued charges strictly in the
\* order queuePayment received them, one at a time, also when two drains
\* run concurrently, and no entry is lost or processed twice: every
\* request received is in the queue, in process or in the results of
\* exactly one drain.
C37_DrainOneAtATimeNothingLost ==
    /\ \A d, e \in Payers :
          (d # e /\ drains[d].pc = "awaiting") => drains[e].pc # "awaiting"
    /\ \A n \in 1..queued :
          \/ \E i \in DOMAIN chargeQueue : chargeQueue[i].seq = n
          \/ \E d \in Payers : n \in heldBy(d)
    /\ \A d, e \in Payers : d # e => heldBy(d) \cap heldBy(e) = {}

====
